---- MODULE Spec2Model ----
(***************************************************************************)
(* Fiscal cross-validation (TaxValidator) and the handlers that call it.   *)
(*                                                                         *)
(* Amounts.  The Go code holds amounts as float64.  Here a float64 amount  *)
(* is a fixed-point integer counting 1/Scale of a cent, so that every      *)
(* product with a rate of the code (0.18, 0.16, 0.10, 0.02, 0.25, 0.27)    *)
(* and with a tolerance (0.05, 0.10) of a two-decimal amount is exact.     *)
(* Request amounts are written in cents and lifted with Fx.                *)
(***************************************************************************)
EXTENDS Integers, Sequences, FiniteSets, TLC

VARIABLES
    request,    \* the HTTP request being served: its kind and decoded body
    pc,         \* "pending" before the handler ran, "done" after
    now,        \* the wall clock read by time.Now()
    returned,   \* the *ValidationResult of each call of Validate, in order
    calledAt,   \* what time.Now() showed in each of those calls
    response,   \* the JSON body written by the handler
    saved,      \* the row written to facturas_clientes, or NoRow
    shared,     \* the *TaxValidator that concurrent calls of Validate share
    calls       \* the concurrent calls of Validate: input, position, result

vars == <<request, pc, now, returned, calledAt, response, saved, shared, calls>>

----------------------------------------------------------------------------
(* Fixed-point arithmetic standing for float64 *)

Scale == 100 * 100

Fx(cents) == cents * Scale

\* the float64 n, for a whole number n
Num(n) == Fx(100 * n)

Abs(x) == IF x < 0 THEN -x ELSE x

\* x * (p / 100) for a rate or tolerance written in the code as 0.pp
Pct(x, p) == (x * p) \div 100

\* round2: math.Round(f*100)/100, half away from zero; the result is a
\* two-decimal amount, again in fixed point
round2(f) ==
    IF f >= 0 THEN ((f + (Scale \div 2)) \div Scale) * Scale
              ELSE -(((-f) + (Scale \div 2)) \div Scale) * Scale

----------------------------------------------------------------------------
(* TaxValidator *)

\* NewTaxValidator: default 5% tolerance
NewTaxValidator == [tolerance |-> 5]

ValidationError(field, code, expected, actual) ==
    [field |-> field, code |-> code, expected |-> expected, actual |-> actual]

ValidationWarning(field, code) == [field |-> field, code |-> code]

AddError(result, e) == [result EXCEPT !.errors = Append(@, e)]

AddWarning(result, w) == [result EXCEPT !.warnings = Append(@, w)]

\* validateITBIS raising the error at the tolerance itself
validateITBIS_AtTolerance(v, input, result, baseGravada, itbisEsperado) ==
    IF baseGravada <= 0 THEN result
    ELSE LET diff == Abs(input.itbisFacturado - itbisEsperado)
             toleranceAmount == Pct(baseGravada, v.tolerance)
         IN  IF diff >= toleranceAmount
             THEN AddError(result,
                      ValidationError("itbis_facturado", "itbis_mismatch",
                                      round2(itbisEsperado),
                                      round2(input.itbisFacturado)))
             ELSE result

\* validateITBIS running on a zero base
validateITBIS_ZeroBase(v, input, result, baseGravada, itbisEsperado) ==
    IF baseGravada < 0 THEN result
    ELSE LET diff == Abs(input.itbisFacturado - itbisEsperado)
             toleranceAmount == Pct(baseGravada, v.tolerance)
         IN  IF diff > toleranceAmount
             THEN AddError(result,
                      ValidationError("itbis_facturado", "itbis_mismatch",
                                      round2(itbisEsperado),
                                      round2(input.itbisFacturado)))
             ELSE result

\* validateITBIS gated by the subtotal instead of the taxed base
validateITBIS_SubtotalGate(v, input, result, baseGravada, itbisEsperado) ==
    IF input.montoServicios + input.montoBienes <= 0 THEN result
    ELSE LET diff == Abs(input.itbisFacturado - itbisEsperado)
             toleranceAmount == Pct(baseGravada, v.tolerance)
         IN  IF diff > toleranceAmount
             THEN AddError(result,
                      ValidationError("itbis_facturado", "itbis_mismatch",
                                      round2(itbisEsperado),
                                      round2(input.itbisFacturado)))
             ELSE result

\* validateITBIS checks ITBIS matches 18% of base gravada
validateITBIS(v, input, result, baseGravada, itbisEsperado) ==
    IF baseGravada <= 0 THEN result
    ELSE LET diff == Abs(input.itbisFacturado - itbisEsperado)
             toleranceAmount == Pct(baseGravada, v.tolerance)
         IN  IF diff > toleranceAmount
             THEN AddError(result,
                      ValidationError("itbis_facturado", "itbis_mismatch",
                                      round2(itbisEsperado),
                                      round2(input.itbisFacturado)))
             ELSE result

\* validateTotal taking the tolerance from the expected total
validateTotal_ExpectedTolerance(v, input, result, totalEsperado) ==
    IF input.totalFactura <= 0 THEN result
    ELSE LET diff == Abs(input.totalFactura - totalEsperado)
             toleranceAmount == Pct(totalEsperado, v.tolerance)
         IN  IF diff > toleranceAmount
             THEN AddError(result,
                      ValidationError("total_factura", "total_mismatch",
                                      round2(totalEsperado),
                                      round2(input.totalFactura)))
             ELSE result

\* validateTotal checks total matches sum of components
validateTotal(v, input, result, totalEsperado) ==
    IF input.totalFactura <= 0 THEN result
    ELSE LET diff == Abs(input.totalFactura - totalEsperado)
             toleranceAmount == Pct(input.totalFactura, v.tolerance)
         IN  IF diff > toleranceAmount
             THEN AddError(result,
                      ValidationError("total_factura", "total_mismatch",
                                      round2(totalEsperado),
                                      round2(input.totalFactura)))
             ELSE result

\* validatePropina with the validator's tolerance instead of its own
validatePropina_GlobalTolerance(v, input, result, montoFacturado) ==
    IF input.propinaLegal <= 0 \/ montoFacturado <= 0 THEN result
    ELSE LET propinaEsperada == Pct(montoFacturado, 10)
             diff == Abs(input.propinaLegal - propinaEsperada)
             toleranceAmount == Pct(propinaEsperada, v.tolerance)
         IN  IF diff > toleranceAmount
             THEN AddWarning(result,
                      ValidationWarning("propina_legal", "propina_mismatch"))
             ELSE result

\* validatePropina checks propina is ~10% of base
validatePropina(v, input, result, montoFacturado) ==
    IF input.propinaLegal <= 0 \/ montoFacturado <= 0 THEN result
    ELSE LET propinaEsperada == Pct(montoFacturado, 10)
             diff == Abs(input.propinaLegal - propinaEsperada)
             toleranceAmount == Pct(propinaEsperada, 10)
         IN  IF diff > toleranceAmount
             THEN AddWarning(result,
                      ValidationWarning("propina_legal", "propina_mismatch"))
             ELSE result

\* validateTelecom checking the CDT only when the ISC matched
validateTelecom_ElseIf(v, input, result, baseGravada) ==
    IF input.iscCategoria # "telecom" \/ baseGravada <= 0 THEN result
    ELSE LET iscEsperado == Pct(baseGravada, 10)
             diffISC == Abs(input.iscMonto - iscEsperado)
             cdtEsperado == Pct(baseGravada, 2)
             diffCDT == Abs(input.cdtMonto - cdtEsperado)
         IN  IF diffISC > Pct(iscEsperado, v.tolerance)
             THEN AddWarning(result,
                      ValidationWarning("isc_monto", "isc_telecom_mismatch"))
             ELSE IF diffCDT > Pct(cdtEsperado, v.tolerance)
             THEN AddWarning(result,
                      ValidationWarning("cdt_monto", "cdt_mismatch"))
             ELSE result

\* validateTelecom validates ISC (10%) and CDT (2%) for telecom invoices
validateTelecom(v, input, result, baseGravada) ==
    IF input.iscCategoria # "telecom" \/ baseGravada <= 0 THEN result
    ELSE LET iscEsperado == Pct(baseGravada, 10)
             diffISC == Abs(input.iscMonto - iscEsperado)
             r1 == IF diffISC > Pct(iscEsperado, v.tolerance)
                   THEN AddWarning(result,
                            ValidationWarning("isc_monto", "isc_telecom_mismatch"))
                   ELSE result
             cdtEsperado == Pct(baseGravada, 2)
             diffCDT == Abs(input.cdtMonto - cdtEsperado)
         IN  IF diffCDT > Pct(cdtEsperado, v.tolerance)
             THEN AddWarning(r1, ValidationWarning("cdt_monto", "cdt_mismatch"))
             ELSE r1

----------------------------------------------------------------------------
(* Strings are sequences of one-character strings; dates and the clock *)

Digits == {"0", "1", "2", "3", "4", "5", "6", "7", "8", "9"}

DigitVal(c) ==
    CASE c = "0" -> 0 [] c = "1" -> 1 [] c = "2" -> 2 [] c = "3" -> 3
      [] c = "4" -> 4 [] c = "5" -> 5 [] c = "6" -> 6 [] c = "7" -> 7
      [] c = "8" -> 8 [] c = "9" -> 9

IsLeap(y) == (y % 4 = 0 /\ y % 100 # 0) \/ y % 400 = 0

DaysIn(y, m) ==
    IF m = 2 THEN (IF IsLeap(y) THEN 29 ELSE 28)
    ELSE IF m \in {4, 6, 9, 11} THEN 30 ELSE 31

\* An instant: a calendar day (ordered as the calendar orders days) and the
\* time elapsed since 00:00 UTC of that day
DayOrd(y, m, d) == (y * 12 + (m - 1)) * 31 + (d - 1)

Instant(y, m, d, nanos) == [day |-> DayOrd(y, m, d), nanos |-> nanos]

\* time.Time.After
After(t, u) == t.day > u.day \/ (t.day = u.day /\ t.nanos > u.nanos)

\* time.Parse("2006-01-02", s): err # nil unless s is YYYY-MM-DD naming a
\* day of the calendar; the value is 00:00 UTC of that day
ParseDate(s) ==
    IF /\ Len(s) = 10
       /\ \A i \in {1, 2, 3, 4, 6, 7, 9, 10} : s[i] \in Digits
       /\ s[5] = "-" /\ s[8] = "-"
    THEN LET y == DigitVal(s[1]) * 1000 + DigitVal(s[2]) * 100
                  + DigitVal(s[3]) * 10 + DigitVal(s[4])
             m == DigitVal(s[6]) * 10 + DigitVal(s[7])
             d == DigitVal(s[9]) * 10 + DigitVal(s[10])
         IN  IF m \in 1..12 /\ d >= 1 /\ d <= DaysIn(y, m)
             THEN [err |-> FALSE, t |-> Instant(y, m, d, 0)]
             ELSE [err |-> TRUE, t |-> Instant(1, 1, 1, 0)]
    ELSE [err |-> TRUE, t |-> Instant(1, 1, 1, 0)]

\* regexp ^[BE][0-9]{10,12}$
ncfPattern(s) ==
    /\ Len(s) >= 11 /\ Len(s) <= 13
    /\ s[1] \in {"B", "E"}
    /\ \A i \in 2..Len(s) : s[i] \in Digits

\* the keys of validTypes
validTypes ==
    { <<"B", "0", "1">>, <<"B", "0", "2">>, <<"B", "0", "4">>,
      <<"B", "1", "4">>, <<"B", "1", "5">>, <<"B", "1", "6">>,
      <<"E", "3", "1">>, <<"E", "3", "2">>, <<"E", "3", "3">>,
      <<"E", "3", "4">>, <<"E", "4", "1">>, <<"E", "4", "3">>,
      <<"E", "4", "4">>, <<"E", "4", "5">> }

\* validateNCF going on to the type and expiry after a format error
validateNCF_NoReturn(v, input, result, clock) ==
    IF input.ncf = <<>> THEN result
    ELSE LET r0 == IF ~ncfPattern(input.ncf)
                   THEN AddError(result,
                            ValidationError("ncf", "ncf_invalid_format", 0, 0))
                   ELSE result
             tipoNCF == IF Len(input.ncf) >= 3 THEN SubSeq(input.ncf, 1, 3)
                        ELSE input.ncf
             r1 == IF tipoNCF \notin validTypes
                   THEN AddWarning(r0,
                            ValidationWarning("ncf", "ncf_unknown_type"))
                   ELSE r0
         IN  IF input.ncfVencimiento # <<>>
             THEN LET parsed == ParseDate(input.ncfVencimiento)
                  IN  IF ~parsed.err /\ After(clock, parsed.t)
                      THEN AddError(r1,
                               ValidationError("ncf_vencimiento", "ncf_expired", 0, 0))
                      ELSE r1
             ELSE r1

\* validateNCF treating an unknown type as the end of the NCF check
validateNCF_UnknownTypeReturns(v, input, result, clock) ==
    IF input.ncf = <<>> THEN result
    ELSE IF ~ncfPattern(input.ncf)
    THEN AddError(result, ValidationError("ncf", "ncf_invalid_format", 0, 0))
    ELSE IF SubSeq(input.ncf, 1, 3) \notin validTypes
    THEN AddWarning(result, ValidationWarning("ncf", "ncf_unknown_type"))
    ELSE IF input.ncfVencimiento # <<>>
    THEN LET parsed == ParseDate(input.ncfVencimiento)
         IN  IF ~parsed.err /\ After(clock, parsed.t)
             THEN AddError(result,
                      ValidationError("ncf_vencimiento", "ncf_expired", 0, 0))
             ELSE result
    ELSE result

\* validateNCF counting an NCF as expired from the very instant of its date
validateNCF_ExpiredAtMidnight(v, input, result, clock) ==
    IF input.ncf = <<>> THEN result
    ELSE IF ~ncfPattern(input.ncf)
    THEN AddError(result, ValidationError("ncf", "ncf_invalid_format", 0, 0))
    ELSE LET tipoNCF == SubSeq(input.ncf, 1, 3)
             r1 == IF tipoNCF \notin validTypes
                   THEN AddWarning(result,
                            ValidationWarning("ncf", "ncf_unknown_type"))
                   ELSE result
         IN  IF input.ncfVencimiento # <<>>
             THEN LET parsed == ParseDate(input.ncfVencimiento)
                  IN  IF ~parsed.err /\ ~After(parsed.t, clock)
                      THEN AddError(r1,
                               ValidationError("ncf_vencimiento", "ncf_expired", 0, 0))
                      ELSE r1
             ELSE r1

\* validateNCF reporting an expired NCF instead of its unknown type
validateNCF_ExpiredHidesType(v, input, result, clock) ==
    IF input.ncf = <<>> THEN result
    ELSE IF ~ncfPattern(input.ncf)
    THEN AddError(result, ValidationError("ncf", "ncf_invalid_format", 0, 0))
    ELSE LET tipoNCF == SubSeq(input.ncf, 1, 3)
             r1 == IF tipoNCF \notin validTypes
                   THEN AddWarning(result,
                            ValidationWarning("ncf", "ncf_unknown_type"))
                   ELSE result
         IN  IF input.ncfVencimiento # <<>>
             THEN LET parsed == ParseDate(input.ncfVencimiento)
                  IN  IF ~parsed.err /\ After(clock, parsed.t)
                      THEN AddError(result,
                               ValidationError("ncf_vencimiento", "ncf_expired", 0, 0))
                      ELSE r1
             ELSE r1

\* validateNCF checks NCF format, type and expiration; clock is time.Now()
validateNCF(v, input, result, clock) ==
    IF input.ncf = <<>> THEN result
    ELSE IF ~ncfPattern(input.ncf)
    THEN AddError(result, ValidationError("ncf", "ncf_invalid_format", 0, 0))
    ELSE LET tipoNCF == SubSeq(input.ncf, 1, 3)
             r1 == IF tipoNCF \notin validTypes
                   THEN AddWarning(result,
                            ValidationWarning("ncf", "ncf_unknown_type"))
                   ELSE result
         IN  IF input.ncfVencimiento # <<>>
             THEN LET parsed == ParseDate(input.ncfVencimiento)
                  IN  IF ~parsed.err /\ After(clock, parsed.t)
                      THEN AddError(r1,
                               ValidationError("ncf_vencimiento", "ncf_expired", 0, 0))
                      ELSE r1
             ELSE r1

\* isrRates with 10% for every type
isrRates_Flat == [t \in 1..8 |-> 10]

\* the keys and values of isrRates, in percent
isrRates == [t \in 1..8 |-> IF t = 6 THEN 25 ELSE IF t = 7 THEN 27 ELSE 10]

\* validateISRRate checks ISR retention matches expected rate by type
validateISRRate(v, input, result) ==
    IF input.retencionISRTipo \notin DOMAIN isrRates THEN result
    ELSE LET expectedRate == isrRates[input.retencionISRTipo]
             baseISR == input.montoServicios + input.montoBienes - input.descuento
         IN  IF baseISR <= 0 THEN result
             ELSE LET expectedISR == Pct(baseISR, expectedRate)
                      diff == Abs(input.retencionISRMonto - expectedISR)
                      toleranceAmount == Pct(expectedISR, v.tolerance)
                  IN  IF diff > toleranceAmount /\ expectedISR > 0
                      THEN AddWarning(result,
                               ValidationWarning("retencion_isr_monto",
                                                 "isr_rate_mismatch"))
                      ELSE result

\* validateRetenciones asking for the payment date only when both
\* retentions are present
validateRetenciones_BothRetentions(v, input, result) ==
    LET hasRetention == input.itbisRetenido > 0 /\ input.retencionISRMonto > 0
        r1 == IF hasRetention /\ input.fechaPago = <<>>
              THEN AddError(result,
                       ValidationError("fecha_pago", "missing_payment_date", 0, 0))
              ELSE result
    IN  IF input.retencionISRMonto > 0
        THEN IF input.retencionISRTipo < 1 \/ input.retencionISRTipo > 8
             THEN AddError(r1,
                      ValidationError("retencion_isr_tipo",
                                      "missing_retencion_tipo", 0, 0))
             ELSE validateISRRate(v, input, r1)
        ELSE r1

\* validateRetenciones checks retention fields are consistent
validateRetenciones(v, input, result) ==
    LET hasRetention == input.itbisRetenido > 0 \/ input.retencionISRMonto > 0
        r1 == IF hasRetention /\ input.fechaPago = <<>>
              THEN AddError(result,
                       ValidationError("fecha_pago", "missing_payment_date", 0, 0))
              ELSE result
    IN  IF input.retencionISRMonto > 0
        THEN IF input.retencionISRTipo < 1 \/ input.retencionISRTipo > 8
             THEN AddError(r1,
                      ValidationError("retencion_isr_tipo",
                                      "missing_retencion_tipo", 0, 0))
             ELSE validateISRRate(v, input, r1)
        ELSE r1

\* validateCoherence reporting no_amounts when either amount is zero
validateCoherence_EitherZero(v, input, result) ==
    LET r1 == IF input.montoServicios = 0 \/ input.montoBienes = 0
              THEN AddError(result,
                       ValidationError("monto_servicios", "no_amounts", 0, 0))
              ELSE result
        base == input.montoServicios + input.montoBienes - input.descuento
        gravada == base - input.itbisExento
        r2 == IF input.itbisFacturado > 0 /\ input.itbisExento > 0 /\ gravada < 0
              THEN AddWarning(r1,
                       ValidationWarning("itbis_exento",
                                         "itbis_exento_exceeds_base"))
              ELSE r1
        subtotal == input.montoServicios + input.montoBienes
    IN  IF input.descuento > subtotal
        THEN AddWarning(r2,
                 ValidationWarning("descuento", "descuento_exceeds_subtotal"))
        ELSE r2

\* validateCoherence warning as soon as the discount reaches the subtotal
validateCoherence_DescuentoAtSubtotal(v, input, result) ==
    LET r1 == IF input.montoServicios = 0 /\ input.montoBienes = 0
              THEN AddError(result,
                       ValidationError("monto_servicios", "no_amounts", 0, 0))
              ELSE result
        base == input.montoServicios + input.montoBienes - input.descuento
        gravada == base - input.itbisExento
        r2 == IF input.itbisFacturado > 0 /\ input.itbisExento > 0 /\ gravada < 0
              THEN AddWarning(r1,
                       ValidationWarning("itbis_exento",
                                         "itbis_exento_exceeds_base"))
              ELSE r1
        subtotal == input.montoServicios + input.montoBienes
    IN  IF input.descuento >= subtotal
        THEN AddWarning(r2,
                 ValidationWarning("descuento", "descuento_exceeds_subtotal"))
        ELSE r2

\* validateCoherence checks field coherence
validateCoherence(v, input, result) ==
    LET r1 == IF input.montoServicios = 0 /\ input.montoBienes = 0
              THEN AddError(result,
                       ValidationError("monto_servicios", "no_amounts", 0, 0))
              ELSE result
        base == input.montoServicios + input.montoBienes - input.descuento
        gravada == base - input.itbisExento
        r2 == IF input.itbisFacturado > 0 /\ input.itbisExento > 0 /\ gravada < 0
              THEN AddWarning(r1,
                       ValidationWarning("itbis_exento",
                                         "itbis_exento_exceeds_base"))
              ELSE r1
        subtotal == input.montoServicios + input.montoBienes
    IN  IF input.descuento > subtotal
        THEN AddWarning(r2,
                 ValidationWarning("descuento", "descuento_exceeds_subtotal"))
        ELSE r2

\* computedValues without the clamp of the taxed base
computedValues_NoClamp(input) ==
    LET baseGravada == input.montoServicios + input.montoBienes
                       - input.descuento - input.itbisExento
        montoFacturado == input.montoServicios + input.montoBienes
                          - input.descuento
        itbisTasa == IF input.itbisTasa = Num(16) THEN 16 ELSE 18
        itbisEsperado == Pct(baseGravada, itbisTasa)
        totalEsperado == montoFacturado + input.itbisFacturado + input.iscMonto
                         + input.cdtMonto + input.cargo911 + input.propinaLegal
                         + input.otrosImpuestos
    IN  [baseGravada |-> baseGravada, itbisEsperado |-> itbisEsperado,
         totalEsperado |-> totalEsperado, montoFacturado |-> montoFacturado]

\* computedValues with the tip left out of the expected total
computedValues_NoPropina(input) ==
    LET sum == input.montoServicios + input.montoBienes
               - input.descuento - input.itbisExento
        baseGravada == IF sum < 0 THEN 0 ELSE sum
        montoFacturado == input.montoServicios + input.montoBienes
                          - input.descuento
        itbisTasa == IF input.itbisTasa = Num(16) THEN 16 ELSE 18
        itbisEsperado == Pct(baseGravada, itbisTasa)
        totalEsperado == montoFacturado + input.itbisFacturado + input.iscMonto
                         + input.cdtMonto + input.cargo911
                         + input.otrosImpuestos
    IN  [baseGravada |-> baseGravada, itbisEsperado |-> itbisEsperado,
         totalEsperado |-> totalEsperado, montoFacturado |-> montoFacturado]

\* computedValues with the non-billable amount added to the expected total
computedValues_WithNoFacturable(input) ==
    LET sum == input.montoServicios + input.montoBienes
               - input.descuento - input.itbisExento
        baseGravada == IF sum < 0 THEN 0 ELSE sum
        montoFacturado == input.montoServicios + input.montoBienes
                          - input.descuento
        itbisTasa == IF input.itbisTasa = Num(16) THEN 16 ELSE 18
        itbisEsperado == Pct(baseGravada, itbisTasa)
        totalEsperado == montoFacturado + input.itbisFacturado + input.iscMonto
                         + input.cdtMonto + input.cargo911 + input.propinaLegal
                         + input.otrosImpuestos + input.montoNoFacturable
    IN  [baseGravada |-> baseGravada, itbisEsperado |-> itbisEsperado,
         totalEsperado |-> totalEsperado, montoFacturado |-> montoFacturado]

\* Validate, "Calculate computed values": the reference values before
\* rounding
computedValues(input) ==
    LET sum == input.montoServicios + input.montoBienes
               - input.descuento - input.itbisExento
        baseGravada == IF sum < 0 THEN 0 ELSE sum
        montoFacturado == input.montoServicios + input.montoBienes
                          - input.descuento
        itbisTasa == IF input.itbisTasa = Num(16) THEN 16 ELSE 18
        itbisEsperado == Pct(baseGravada, itbisTasa)
        totalEsperado == montoFacturado + input.itbisFacturado + input.iscMonto
                         + input.cdtMonto + input.cargo911 + input.propinaLegal
                         + input.otrosImpuestos
    IN  [baseGravada |-> baseGravada, itbisEsperado |-> itbisEsperado,
         totalEsperado |-> totalEsperado, montoFacturado |-> montoFacturado]

\* finalStatus with the review flag taken from the wrong list
finalStatus_ReviewFromErrors(result) ==
    [result EXCEPT !.valid = (Len(result.errors) = 0),
                   !.needsReview = (Len(result.errors) > 0)]

\* Validate, "Set final status"
finalStatus(result) ==
    [result EXCEPT !.valid = (Len(result.errors) = 0),
                   !.needsReview = (Len(result.warnings) > 0)]

\* Validate running the coherence check before the retention check
Validate_CoherenceBeforeRetenciones(v, input, clock) ==
    LET c == computedValues(input)
        r0 == [valid |-> TRUE, needsReview |-> FALSE, errors |-> <<>>,
               warnings |-> <<>>,
               computed |-> [baseGravada    |-> round2(c.baseGravada),
                             itbisEsperado  |-> round2(c.itbisEsperado),
                             totalEsperado  |-> round2(c.totalEsperado),
                             montoFacturado |-> round2(c.montoFacturado)]]
        r1 == validateITBIS(v, input, r0, c.baseGravada, c.itbisEsperado)
        r2 == validateTotal(v, input, r1, c.totalEsperado)
        r3 == validatePropina(v, input, r2, c.montoFacturado)
        r4 == validateTelecom(v, input, r3, c.baseGravada)
        r5 == validateNCF(v, input, r4, clock)
        r6 == validateCoherence(v, input, r5)
        r7 == validateRetenciones(v, input, r6)
    IN  finalStatus(r7)

\* Validate performs all cross-validations on invoice data
Validate(v, input, clock) ==
    LET c == computedValues(input)
        r0 == [valid |-> TRUE, needsReview |-> FALSE, errors |-> <<>>,
               warnings |-> <<>>,
               computed |-> [baseGravada    |-> round2(c.baseGravada),
                             itbisEsperado  |-> round2(c.itbisEsperado),
                             totalEsperado  |-> round2(c.totalEsperado),
                             montoFacturado |-> round2(c.montoFacturado)]]
        r1 == validateITBIS(v, input, r0, c.baseGravada, c.itbisEsperado)
        r2 == validateTotal(v, input, r1, c.totalEsperado)
        r3 == validatePropina(v, input, r2, c.montoFacturado)
        r4 == validateTelecom(v, input, r3, c.baseGravada)
        r5 == validateNCF(v, input, r4, clock)
        r6 == validateRetenciones(v, input, r5)
        r7 == validateCoherence(v, input, r6)
    IN  finalStatus(r7)

----------------------------------------------------------------------------
(* Extraction: the invoice handed to the handlers (decimal amounts, cents) *)

\* decimal.Decimal.Float64()
decimalToFloat64(d) == Fx(d)

ZeroTime == [day |-> 0, nanos |-> 0]

\* regexp ^(B0[124]|B1[456]|E3[1-9]|E4[0-5])\d{8,13}$
ncfRegex(s) ==
    /\ Len(s) >= 11 /\ Len(s) <= 16
    /\ \/ s[1] = "B" /\ s[2] = "0" /\ s[3] \in {"1", "2", "4"}
       \/ s[1] = "B" /\ s[2] = "1" /\ s[3] \in {"4", "5", "6"}
       \/ s[1] = "E" /\ s[2] = "3" /\ s[3] \in Digits \ {"0"}
       \/ s[1] = "E" /\ s[2] = "4" /\ s[3] \in {"0", "1", "2", "3", "4", "5"}
    /\ \A i \in 4..Len(s) : s[i] \in Digits

\* calculateConfidence giving the total bonus only below the tolerance
calculateConfidence_StrictTolerance(inv) ==
    LET c1 == IF inv.NCF # <<>> THEN 15 ELSE 0
        c2 == IF inv.RNCEmisor # <<>> THEN 15 ELSE 0
        c3 == IF inv.Total > 0 THEN 15 ELSE 0
        c4 == IF ~(inv.ITBIS < 0) THEN 15 ELSE 0
        i1 == IF inv.FechaFactura # ZeroTime THEN 5 ELSE 0
        i2 == IF inv.Subtotal > 0 THEN 5 ELSE 0
        i3 == IF inv.TipoNCF # <<>> THEN 5 ELSE 0
        i4 == IF inv.NombreEmisor # "" THEN 5 ELSE 0
        b1 == IF ncfRegex(inv.NCF) THEN 10 ELSE 0
        b2 == IF inv.Total > 0 /\ inv.Subtotal > 0
              THEN LET expected == inv.Subtotal + inv.ITBIS
                       diff == Abs(inv.Total - expected)
                   IN  IF diff * 100 < inv.Total * 5 THEN 10 ELSE 0
              ELSE 0
        score == c1 + c2 + c3 + c4 + i1 + i2 + i3 + i4 + b1 + b2
    IN  IF score > 100 THEN 100 ELSE score

\* calculateConfidence, in hundredths
calculateConfidence(inv) ==
    LET c1 == IF inv.NCF # <<>> THEN 15 ELSE 0
        c2 == IF inv.RNCEmisor # <<>> THEN 15 ELSE 0
        c3 == IF inv.Total > 0 THEN 15 ELSE 0
        c4 == IF ~(inv.ITBIS < 0) THEN 15 ELSE 0
        i1 == IF inv.FechaFactura # ZeroTime THEN 5 ELSE 0
        i2 == IF inv.Subtotal > 0 THEN 5 ELSE 0
        i3 == IF inv.TipoNCF # <<>> THEN 5 ELSE 0
        i4 == IF inv.NombreEmisor # "" THEN 5 ELSE 0
        b1 == IF ncfRegex(inv.NCF) THEN 10 ELSE 0
        b2 == IF inv.Total > 0 /\ inv.Subtotal > 0
              THEN LET expected == inv.Subtotal + inv.ITBIS
                       diff == Abs(inv.Total - expected)
                   IN  \* diff <= Total * 0.05, in exact decimals
                       IF diff * 100 <= inv.Total * 5 THEN 10 ELSE 0
              ELSE 0
        score == c1 + c2 + c3 + c4 + i1 + i2 + i3 + i4 + b1 + b2
    IN  IF score > 100 THEN 100 ELSE score

\* parseResponseDGII, from the parsed fields on: the type code defaults to
\* the NCF prefix and the confidence is computed last
parseResponseDGII(raw) ==
    LET inv == IF raw.TipoNCF = <<>> /\ raw.NCF # <<>> /\ Len(raw.NCF) >= 3
               THEN [raw EXCEPT !.TipoNCF = SubSeq(raw.NCF, 1, 3)]
               ELSE raw
    IN  [inv EXCEPT !.Confidence = calculateConfidence(inv)]

----------------------------------------------------------------------------
(* Handlers *)

NoRow == <<>>

ErrorResponse(status) ==
    [status |-> status, success |-> FALSE, extractionStatus |-> "",
     validation |-> <<>>, savedToDb |-> FALSE]

\* ValidateInvoiceTaxes: POST /api/v1/invoices/validate
ValidateInvoiceTaxes ==
    /\ pc = "pending"
    /\ request.kind = "validate"
    /\ IF request.fault = "invalid_json"
       THEN /\ response' = ErrorResponse(400)
            /\ UNCHANGED <<returned, calledAt>>
       ELSE LET validator == NewTaxValidator
                result == Validate(validator, request.input, now)
            IN  /\ returned' = Append(returned, result)
                /\ calledAt' = Append(calledAt, now)
                /\ response' = [status |-> 200, success |-> TRUE,
                                extractionStatus |-> "",
                                validation |-> <<result>>,
                                savedToDb |-> FALSE]
    /\ pc' = "done"
    /\ UNCHANGED <<request, now, saved, shared, calls>>

\* the literal with the extracted payment date passed on
validationInput_WithFechaPago(invoice) ==
    [montoServicios        |-> decimalToFloat64(invoice.Subtotal),
     montoBienes           |-> 0,
     descuento             |-> decimalToFloat64(invoice.Descuento),
     itbisFacturado        |-> decimalToFloat64(invoice.ITBIS),
     itbisTasa             |-> decimalToFloat64(invoice.ITBISTasa),
     itbisExento           |-> decimalToFloat64(invoice.ITBISExento),
     itbisRetenido         |-> decimalToFloat64(invoice.ITBISRetenido),
     itbisProporcionalidad |-> decimalToFloat64(invoice.ITBISProporcionalidad),
     itbisCosto            |-> decimalToFloat64(invoice.ITBISCosto),
     iscMonto              |-> decimalToFloat64(invoice.ISC),
     iscCategoria          |-> invoice.ISCCategoria,
     cdtMonto              |-> decimalToFloat64(invoice.CDTMonto),
     cargo911              |-> decimalToFloat64(invoice.Cargo911),
     propinaLegal          |-> decimalToFloat64(invoice.Propina),
     otrosImpuestos        |-> decimalToFloat64(invoice.OtrosImpuestos),
     montoNoFacturable     |-> decimalToFloat64(invoice.MontoNoFacturable),
     retencionISRTipo      |-> invoice.RetencionISRTipo,
     retencionISRMonto     |-> decimalToFloat64(invoice.ISR),
     totalFactura          |-> decimalToFloat64(invoice.Total),
     ncf                   |-> invoice.NCF,
     ncfVencimiento        |-> <<>>,
     fechaPago             |-> IF invoice.FechaPago # ZeroTime
                               THEN <<"2", "0", "2", "5", "-", "0", "1", "-",
                                      "1", "0">>
                               ELSE <<>>]

\* the services.InvoiceInput literal built by ProcessInvoice
validationInput(invoice) ==
    [montoServicios        |-> decimalToFloat64(invoice.Subtotal),
     montoBienes           |-> 0,
     descuento             |-> decimalToFloat64(invoice.Descuento),
     itbisFacturado        |-> decimalToFloat64(invoice.ITBIS),
     itbisTasa             |-> decimalToFloat64(invoice.ITBISTasa),
     itbisExento           |-> decimalToFloat64(invoice.ITBISExento),
     itbisRetenido         |-> decimalToFloat64(invoice.ITBISRetenido),
     itbisProporcionalidad |-> decimalToFloat64(invoice.ITBISProporcionalidad),
     itbisCosto            |-> decimalToFloat64(invoice.ITBISCosto),
     iscMonto              |-> decimalToFloat64(invoice.ISC),
     iscCategoria          |-> invoice.ISCCategoria,
     cdtMonto              |-> decimalToFloat64(invoice.CDTMonto),
     cargo911              |-> decimalToFloat64(invoice.Cargo911),
     propinaLegal          |-> decimalToFloat64(invoice.Propina),
     otrosImpuestos        |-> decimalToFloat64(invoice.OtrosImpuestos),
     montoNoFacturable     |-> decimalToFloat64(invoice.MontoNoFacturable),
     retencionISRTipo      |-> invoice.RetencionISRTipo,
     retencionISRMonto     |-> decimalToFloat64(invoice.ISR),
     totalFactura          |-> decimalToFloat64(invoice.Total),
     ncf                   |-> invoice.NCF,
     ncfVencimiento        |-> <<>>,
     fechaPago             |-> <<>>]

\* extractionStatus with the threshold value itself sent to review
extractionStatus_Inclusive(validationResult, confidence) ==
    IF ~validationResult.valid
    THEN [status |-> "error", result |-> validationResult]
    ELSE IF validationResult.needsReview \/ confidence <= 85
    THEN [status |-> "review",
          result |-> [validationResult EXCEPT !.needsReview = TRUE]]
    ELSE [status |-> "validated", result |-> validationResult]

\* extractionStatus with the threshold at 0.75
extractionStatus_Threshold75(validationResult, confidence) ==
    IF ~validationResult.valid
    THEN [status |-> "error", result |-> validationResult]
    ELSE IF validationResult.needsReview \/ confidence < 75
    THEN [status |-> "review",
          result |-> [validationResult EXCEPT !.needsReview = TRUE]]
    ELSE [status |-> "validated", result |-> validationResult]

\* "Determinar extraction_status segun validacion y confidence": the status
\* and the validation result as the handler leaves it
extractionStatus(validationResult, confidence) ==
    IF ~validationResult.valid
    THEN [status |-> "error", result |-> validationResult]
    ELSE IF validationResult.needsReview \/ confidence < 85
    THEN [status |-> "review",
          result |-> [validationResult EXCEPT !.needsReview = TRUE]]
    ELSE [status |-> "validated", result |-> validationResult]

\* reviewNotes written whenever the result is flagged for review
reviewNotes_WhenNeedsReview(validationResult) ==
    IF Len(validationResult.errors) > 0 \/ validationResult.needsReview
    THEN <<validationResult>>
    ELSE <<>>

\* "Serializar errores/warnings para review_notes"
reviewNotes(validationResult) ==
    IF Len(validationResult.errors) > 0 \/ Len(validationResult.warnings) > 0
    THEN <<validationResult>>
    ELSE <<>>

\* ProcessInvoice: the multipart upload handler
ProcessInvoice ==
    /\ pc = "pending"
    /\ request.kind = "process"
    /\ pc' = "done"
    /\ UNCHANGED <<request, now, shared, calls>>
    /\ IF request.fault = "unauthorized"
       THEN response' = ErrorResponse(401) /\ UNCHANGED <<returned, calledAt, saved>>
       ELSE IF request.fault \in {"bad_form", "no_file"}
       THEN response' = ErrorResponse(400) /\ UNCHANGED <<returned, calledAt, saved>>
       ELSE IF request.fault = "read_failed"
       THEN response' = ErrorResponse(500) /\ UNCHANGED <<returned, calledAt, saved>>
       ELSE IF request.fault = "extract_failed"
       THEN response' = ErrorResponse(200) /\ UNCHANGED <<returned, calledAt, saved>>
       ELSE
         LET invoice == request.invoice
             validator == NewTaxValidator
             result == Validate(validator, validationInput(invoice), now)
             st == extractionStatus(result, invoice.Confidence)
             notes == reviewNotes(st.result)
             estado == IF st.status = "validated" THEN "procesado"
                       ELSE "pendiente"
             clientInvoice == [NCF |-> invoice.NCF,
                               Monto |-> decimalToFloat64(invoice.Total),
                               Estado |-> estado,
                               ConfidenceScore |-> invoice.Confidence,
                               ExtractionStatus |-> st.status,
                               ReviewNotes |-> notes]
             stored == request.db = "ok"
         IN  /\ returned' = Append(returned, result)
             /\ calledAt' = Append(calledAt, now)
             /\ saved' = IF stored THEN <<clientInvoice>> ELSE saved
             /\ response' = [status |-> 200, success |-> TRUE,
                             extractionStatus |-> st.status,
                             validation |-> <<st.result>>,
                             savedToDb |-> stored]

\* ReprocesarClientInvoice: POST /api/facturas/{id}/reprocesar; the row
\* exists (saved) unless the lookup fails
ReprocesarClientInvoice ==
    /\ pc = "pending"
    /\ request.kind = "reprocess"
    /\ pc' = "done"
    /\ UNCHANGED <<request, now, returned, calledAt, shared, calls>>
    /\ IF request.fault = "unauthorized"
       THEN response' = ErrorResponse(401) /\ UNCHANGED saved
       ELSE IF request.db = "nil"
       THEN response' = ErrorResponse(503) /\ UNCHANGED saved
       ELSE IF request.fault = "not_found"
       THEN response' = ErrorResponse(404) /\ UNCHANGED saved
       ELSE IF request.fault = "no_storage"
       THEN response' = ErrorResponse(503) /\ UNCHANGED saved
       ELSE IF request.fault \in {"read_failed", "extract_failed"}
       THEN response' = ErrorResponse(500) /\ UNCHANGED saved
       ELSE
         LET reprocessedInvoice == request.invoice
             updatedInvoice ==
                 [NCF |-> reprocessedInvoice.NCF,
                  Monto |-> decimalToFloat64(reprocessedInvoice.Total),
                  Estado |-> "procesado",
                  ConfidenceScore |-> reprocessedInvoice.Confidence,
                  ExtractionStatus |-> "validated",
                  ReviewNotes |-> <<>>]
         IN  IF request.db = "save_failed"
             THEN response' = ErrorResponse(500) /\ UNCHANGED saved
             ELSE /\ saved' = <<updatedInvoice>>
                  /\ response' =
                        IF request.fault = "reload_failed"
                        THEN ErrorResponse(500)
                        ELSE [status |-> 200, success |-> TRUE,
                              extractionStatus |-> "",
                              validation |-> <<>>, savedToDb |-> TRUE]

----------------------------------------------------------------------------
(* Requests *)

MaxTipo == 9
MaxTail == 13
MaxNanos == 1

Zeros(n) == [i \in 1..n |-> "0"]

\* NCFs: a three-character prefix and a run of digits ending in 1
NCFOf(prefix, tail) == prefix \o Zeros(tail - 1) \o <<"1">>

Prefixes == { <<"B", "0", "1">>, <<"B", "9", "9">>, <<"X", "0", "1">>,
              <<"E", "3", "1">>, <<"E", "3", "5">> }

NCFSet == {<<>>, <<"B", "1">>}
          \cup { NCFOf(p, t) : p \in Prefixes, t \in 7..MaxTail }

NCF_B01 == NCFOf(<<"B", "0", "1">>, 8)
NCF_B99 == NCFOf(<<"B", "9", "9">>, 8)
NCF_X01 == NCFOf(<<"X", "0", "1">>, 8)

Date_2025_01_10 == <<"2", "0", "2", "5", "-", "0", "1", "-", "1", "0">>
Date_2025_06_14 == <<"2", "0", "2", "5", "-", "0", "6", "-", "1", "4">>
Date_2025_06_15 == <<"2", "0", "2", "5", "-", "0", "6", "-", "1", "5">>
Date_2025_06_16 == <<"2", "0", "2", "5", "-", "0", "6", "-", "1", "6">>
Date_2025_02_30 == <<"2", "0", "2", "5", "-", "0", "2", "-", "3", "0">>
Date_10_01_2025 == <<"1", "0", "/", "0", "1", "/", "2", "0", "2", "5">>

DateSet == {<<>>, Date_2025_01_10, Date_2025_06_14, Date_2025_06_15,
            Date_2025_06_16, Date_2025_02_30, Date_10_01_2025}

\* the instants the clock may show: around 2025-06-15 00:00 UTC
NowSet == { Instant(2025, 6, d, n) : d \in {14, 15}, n \in 0..MaxNanos }

Now0 == Instant(2025, 6, 15, MaxNanos)

ZeroInput ==
    [montoServicios |-> 0, montoBienes |-> 0, descuento |-> 0,
     itbisFacturado |-> 0, itbisTasa |-> 0, itbisExento |-> 0,
     itbisRetenido |-> 0, itbisProporcionalidad |-> 0, itbisCosto |-> 0,
     iscMonto |-> 0, iscCategoria |-> "", cdtMonto |-> 0, cargo911 |-> 0,
     propinaLegal |-> 0, otrosImpuestos |-> 0, montoNoFacturable |-> 0,
     retencionISRTipo |-> 0, retencionISRMonto |-> 0, totalFactura |-> 0,
     ncf |-> <<>>, ncfVencimiento |-> <<>>, fechaPago |-> <<>>]

\* amounts in cents
ServiciosSet == {0, 105, 1000}
BienesSet == {0, 1000}
DescuentoSet == {0, 100, 2500}
ExentoSet == {0, 100, 2500}

\* the base amounts
CoreInputs ==
    { [ZeroInput EXCEPT !.montoServicios = Fx(s), !.montoBienes = Fx(b),
                        !.descuento = Fx(d), !.itbisExento = Fx(e)] :
        s \in ServiciosSet, b \in BienesSet, d \in DescuentoSet,
        e \in ExentoSet }

SmallCoreInputs ==
    { [ZeroInput EXCEPT !.montoServicios = Fx(s), !.montoBienes = Fx(b),
                        !.descuento = Fx(d)] :
        s \in {0, 1000}, b \in {0, 1000}, d \in {0, 100} }

\* ITBIS against the base, at both rates, and the total
ItbisInputs ==
    { [c EXCEPT !.itbisFacturado = Fx(i), !.itbisTasa = Num(t),
                !.totalFactura = Fx(tot)] :
        c \in CoreInputs, i \in {-500, 0, 24, 25, 180, 230, 231, 370},
        t \in {0, 16, 18}, tot \in {0, 1180, 2000, 2001} }

\* the total against each of its components
TotalInputs ==
    { [c EXCEPT !.totalFactura = Fx(tot), !.itbisFacturado = Fx(i),
                !.iscMonto = Fx(isc), !.cdtMonto = Fx(cdt),
                !.cargo911 = Fx(c911), !.propinaLegal = Fx(p),
                !.otrosImpuestos = Fx(o)] :
        c \in SmallCoreInputs, tot \in {-100, 0, 1180, 2000, 2001},
        i \in {0, 180}, isc \in {0, 100}, cdt \in {0, 20}, c911 \in {0, 30},
        p \in {0, 100}, o \in {0, -3000} }

PropinaInputs ==
    { [c EXCEPT !.propinaLegal = Fx(p), !.totalFactura = Fx(tot)] :
        c \in CoreInputs, p \in {-10, 0, 90, 100, 110, 111},
        tot \in {0, 1100} }

TelecomInputs ==
    { [c EXCEPT !.iscCategoria = cat, !.iscMonto = Fx(isc),
                !.cdtMonto = Fx(cdt)] :
        c \in CoreInputs, cat \in {"", "telecom", "alcohol"},
        isc \in {0, 100, 105, 106}, cdt \in {0, 20, 21, 22} }

NCFInputs ==
    { [ZeroInput EXCEPT !.montoServicios = Fx(s), !.ncf = n,
                        !.ncfVencimiento = v] :
        s \in {0, 1000}, n \in NCFSet, v \in DateSet }

RetencionInputs ==
    { [c EXCEPT !.itbisRetenido = Fx(r), !.retencionISRMonto = Fx(m),
                !.retencionISRTipo = t, !.fechaPago = f] :
        c \in SmallCoreInputs, r \in {0, 50},
        m \in {-100, 0, 100, 105, 106, 250, 270}, t \in 0..MaxTipo,
        f \in {<<>>, Date_2025_01_10} }

\* the fields no check reads
UnusedInputs ==
    { [c EXCEPT !.itbisProporcionalidad = Fx(p), !.itbisCosto = Fx(k),
                !.montoNoFacturable = Fx(n), !.itbisFacturado = Fx(i),
                !.totalFactura = Fx(tot)] :
        c \in SmallCoreInputs, p \in {0, 50}, k \in {0, 60}, n \in {0, 70},
        i \in {0, 180}, tot \in {0, 1180} }

\* every check at once
JointInputs ==
    { [ZeroInput EXCEPT !.montoServicios = Fx(s), !.descuento = Fx(d),
                        !.itbisExento = Fx(e), !.itbisFacturado = Fx(i),
                        !.totalFactura = Fx(tot), !.propinaLegal = Fx(p),
                        !.iscCategoria = cat, !.iscMonto = Fx(isc),
                        !.ncf = n, !.ncfVencimiento = v,
                        !.itbisRetenido = Fx(r), !.retencionISRMonto = Fx(m),
                        !.retencionISRTipo = t, !.fechaPago = f] :
        s \in {0, 1000}, d \in {-1000, 0, 2500}, e \in {0, 100},
        i \in {180, 900}, tot \in {1180, 5000}, p \in {0, 500},
        cat \in {"", "telecom"}, isc \in {100},
        n \in {NCF_B01, NCF_B99, NCF_X01}, v \in {<<>>, Date_2025_01_10},
        r \in {0, 50}, m \in {0, 500}, t \in {0, 2},
        f \in {<<>>, Date_2025_01_10} }

\* discounts and exempt amounts above and below the subtotal, the exempt
\* amount negative too
CoherenceInputs ==
    { [ZeroInput EXCEPT !.montoServicios = Fx(1000), !.descuento = Fx(d),
                        !.itbisExento = Fx(e), !.itbisFacturado = Fx(i),
                        !.iscCategoria = cat, !.iscMonto = Fx(50)] :
        d \in {0, 1500}, e \in {-3000, 0, 100, 2500}, i \in {0, 180},
        cat \in {"", "telecom"} }

InputSet ==
    ItbisInputs \cup TotalInputs \cup PropinaInputs \cup TelecomInputs
    \cup NCFInputs \cup RetencionInputs \cup UnusedInputs \cup JointInputs
    \cup CoherenceInputs

RNC_131 == <<"1", "3", "1", "0", "4", "7", "9", "3", "9">>

Fecha_2025_01_10 == Instant(2025, 1, 10, 0)

ZeroInvoice ==
    [NCF |-> <<>>, TipoNCF |-> <<>>, RNCEmisor |-> <<>>, NombreEmisor |-> "",
     FechaFactura |-> ZeroTime, FechaPago |-> ZeroTime,
     Subtotal |-> 0, Descuento |-> 0, ITBIS |-> 0, ITBISTasa |-> 0,
     ITBISExento |-> 0, ITBISRetenido |-> 0, ITBISProporcionalidad |-> 0,
     ITBISCosto |-> 0, ISR |-> 0, RetencionISRTipo |-> 0, ISC |-> 0,
     ISCCategoria |-> "", CDTMonto |-> 0, Cargo911 |-> 0, Propina |-> 0,
     OtrosImpuestos |-> 0, MontoNoFacturable |-> 0, Total |-> 0,
     Confidence |-> 0]

\* an extraction that found every identification field
FullInvoice ==
    [ZeroInvoice EXCEPT !.NCF = NCF_B01, !.TipoNCF = <<"B", "0", "1">>,
                        !.RNCEmisor = RNC_131, !.NombreEmisor = "Tienda X",
                        !.FechaFactura = Fecha_2025_01_10]

\* which identification fields were extracted, against the amounts the
\* confidence score reads
IdentityRaws ==
    { [ZeroInvoice EXCEPT !.NCF = n, !.RNCEmisor = r, !.TipoNCF = t,
                          !.NombreEmisor = nm, !.FechaFactura = f,
                          !.Subtotal = sub, !.ITBIS = i, !.Total = tot] :
        n \in {<<>>, <<"B", "1">>, NCF_B01, NCF_B99, NCF_X01,
               NCFOf(<<"E", "3", "1">>, MaxTail)},
        r \in {<<>>, RNC_131}, t \in {<<>>, <<"B", "0", "1">>},
        nm \in {"", "Tienda X"}, f \in {ZeroTime, Fecha_2025_01_10},
        sub \in {0, 1000}, i \in {-500, 0, 180, 900},
        tot \in {0, 1180, 2000, 2001} }

TaxRaws ==
    { [FullInvoice EXCEPT !.Subtotal = sub, !.Descuento = d,
                          !.ITBISExento = e, !.ITBIS = i, !.ITBISTasa = t,
                          !.Total = tot, !.Propina = p] :
        sub \in ServiciosSet, d \in DescuentoSet, e \in ExentoSet,
        i \in {0, 180, 231}, t \in {0, 1600, 1800}, tot \in {0, 1180, 1280},
        p \in {0, 100, 111} }

TelecomRaws ==
    { [FullInvoice EXCEPT !.Subtotal = sub, !.ITBIS = 180, !.Total = tot,
                          !.ISCCategoria = cat, !.ISC = isc,
                          !.CDTMonto = cdt] :
        sub \in {0, 1000}, tot \in {1180, 1300},
        cat \in {"", "telecom", "alcohol"},
        isc \in {0, 100, 106}, cdt \in {0, 20, 22} }

RetencionRaws ==
    { [FullInvoice EXCEPT !.Subtotal = sub, !.ITBIS = 180, !.Total = 1180,
                          !.ITBISRetenido = r, !.ISR = m,
                          !.RetencionISRTipo = t, !.FechaPago = f,
                          !.NombreEmisor = nm] :
        sub \in {0, 1000}, r \in {0, 50}, m \in {0, 100, 500},
        t \in {0, 2, 6, MaxTipo}, f \in {ZeroTime, Fecha_2025_01_10},
        nm \in {"", "Tienda X"} }

UnusedRaws ==
    { [FullInvoice EXCEPT !.Subtotal = 1000, !.ITBIS = 180, !.Total = 1180,
                          !.ITBISProporcionalidad = p, !.ITBISCosto = k,
                          !.MontoNoFacturable = n, !.Cargo911 = c911,
                          !.OtrosImpuestos = o] :
        p \in {0, 50}, k \in {0, 60}, n \in {0, 70}, c911 \in {0, 30},
        o \in {0, 40} }

RawSet == IdentityRaws \cup TaxRaws \cup TelecomRaws \cup RetencionRaws
          \cup UnusedRaws

\* what processInvoice hands to the handlers
InvoiceSet == { parseResponseDGII(raw) : raw \in RawSet }

Req(kind, fault, db, input, invoice) ==
    [kind |-> kind, fault |-> fault, db |-> db, input |-> input,
     invoice |-> invoice]

ValidateRequests ==
    { Req("validate", "none", "ok", in, ZeroInvoice) : in \in InputSet }
    \cup { Req("validate", "invalid_json", "ok", ZeroInput, ZeroInvoice) }

ProcessRequests ==
    { Req("process", "none", "ok", ZeroInput, inv) : inv \in InvoiceSet }
    \cup { Req("process", "none", db, ZeroInput, parseResponseDGII(raw)) :
             db \in {"nil", "save_failed"},
             raw \in TelecomRaws \cup UnusedRaws }
    \cup { Req("process", f, "ok", ZeroInput, ZeroInvoice) :
             f \in {"unauthorized", "bad_form", "no_file", "read_failed",
                    "extract_failed"} }

\* the row of an invoice stored earlier with status 'error'
ExistingRow ==
    [NCF |-> <<>>, Monto |-> 0, Estado |-> "pendiente",
     ConfidenceScore |-> calculateConfidence(ZeroInvoice),
     ExtractionStatus |-> "error",
     ReviewNotes |-> reviewNotes(Validate(NewTaxValidator,
                                          validationInput(ZeroInvoice), Now0))]

ReprocessRequests ==
    { Req("reprocess", "none", "ok", ZeroInput, parseResponseDGII(raw)) :
        raw \in TelecomRaws \cup UnusedRaws \cup RetencionRaws }
    \cup { Req("reprocess", f, db, ZeroInput, parseResponseDGII(FullInvoice)) :
             f \in {"none", "unauthorized", "not_found", "no_storage",
                    "read_failed", "extract_failed", "reload_failed"},
             db \in {"ok", "nil", "save_failed"} }

RequestSet == ValidateRequests \cup ProcessRequests \cup ReprocessRequests

\* what facturas_clientes holds for the invoice before the request
RowOf(req) ==
    IF req.kind = "reprocess" /\ req.db # "nil" /\ req.fault # "not_found"
    THEN <<ExistingRow>>
    ELSE NoRow

\* the validator reads the clock only when the request carries an expiry
ClockOf(req) == IF req.input.ncfVencimiento # <<>> THEN NowSet ELSE {Now0}

----------------------------------------------------------------------------
(* Specification *)

Init ==
    /\ request \in RequestSet
    /\ now \in ClockOf(request)
    /\ pc = "pending"
    /\ returned = <<>>
    /\ calledAt = <<>>
    /\ response = ErrorResponse(0)
    /\ saved = RowOf(request)
    /\ shared = NewTaxValidator
    /\ calls = <<>>

Next == ValidateInvoiceTaxes \/ ProcessInvoice \/ ReprocesarClientInvoice

Spec == Init /\ [][Next]_vars

(* The same body sent to the validation endpoint again, while time passes *)

\* how many times one body is sent
MaxCalls == 2

\* invoices that differ in their NCF and its expiry, with and without
\* amounts, consistent or not
RepeatInputs ==
    { [ZeroInput EXCEPT !.montoServicios = Fx(s), !.itbisFacturado = Fx(i),
                        !.totalFactura = Fx(s + i), !.ncf = n,
                        !.ncfVencimiento = v] :
        s \in {0, 1000}, i \in {0, 180},
        n \in {<<>>, NCF_B01, NCF_B99, NCF_X01}, v \in DateSet }

InitRepeat ==
    /\ request \in { Req("validate", "none", "ok", in, ZeroInvoice) :
                        in \in RepeatInputs }
    /\ now \in NowSet
    /\ pc = "pending"
    /\ returned = <<>>
    /\ calledAt = <<>>
    /\ response = ErrorResponse(0)
    /\ saved = NoRow
    /\ shared = NewTaxValidator
    /\ calls = <<>>

\* the wall clock moves to another reading between two reads of time.Now()
Tick ==
    /\ now' \in NowSet \ {now}
    /\ UNCHANGED <<request, pc, returned, calledAt, response, saved, shared,
                   calls>>

\* the client posts the body it posted before
Resend ==
    /\ pc = "done"
    /\ request.kind = "validate"
    /\ Len(returned) < MaxCalls
    /\ pc' = "pending"
    /\ UNCHANGED <<request, now, returned, calledAt, response, saved, shared,
                   calls>>

NextRepeat == ValidateInvoiceTaxes \/ Tick \/ Resend

SpecRepeat == InitRepeat /\ [][NextRepeat]_vars

(* Calls of Validate running at once on one TaxValidator *)

\* the goroutines calling Validate
Callers == {"a", "b"}

\* the statements of Validate: 0 builds the result and its computed values,
\* 1 to 7 are the seven checks, 8 sets the final status, 9 has returned
Steps == 0..9

\* the struct Validate allocates, before Computed is assigned
newResult ==
    [valid |-> TRUE, needsReview |-> FALSE, errors |-> <<>>,
     warnings |-> <<>>,
     computed |-> [baseGravada |-> 0, itbisEsperado |-> 0,
                   totalEsperado |-> 0, montoFacturado |-> 0]]

\* the validator with the tip check leaving its wider tolerance behind
sharedAfter_PropinaTolerance(v, step) ==
    IF step = 3 THEN [v EXCEPT !.tolerance = 10] ELSE v

\* the shared validator as a statement of Validate leaves it: no statement
\* assigns to a field of v
sharedAfter(v, step) == v

\* the call's result after the statement at its position, run on validator v
\* with time.Now() showing clock
stepResult(v, call, clock) ==
    LET input == call.input
        result == call.result
        c == computedValues(input)
    IN  CASE call.step = 0 ->
               [result EXCEPT !.computed =
                   [baseGravada    |-> round2(c.baseGravada),
                    itbisEsperado  |-> round2(c.itbisEsperado),
                    totalEsperado  |-> round2(c.totalEsperado),
                    montoFacturado |-> round2(c.montoFacturado)]]
          [] call.step = 1 ->
               validateITBIS(v, input, result, c.baseGravada, c.itbisEsperado)
          [] call.step = 2 -> validateTotal(v, input, result, c.totalEsperado)
          [] call.step = 3 -> validatePropina(v, input, result, c.montoFacturado)
          [] call.step = 4 -> validateTelecom(v, input, result, c.baseGravada)
          [] call.step = 5 -> validateNCF(v, input, result, clock)
          [] call.step = 6 -> validateRetenciones(v, input, result)
          [] call.step = 7 -> validateCoherence(v, input, result)
          [] OTHER -> finalStatus(result)

\* inputs that exercise each check: nothing, a consistent invoice, an ITBIS
\* between 5% and 10% off, an unknown NCF type about to expire with a tip,
\* and telecom surcharges with retentions
ConcurrentInputs ==
    { ZeroInput,
      [ZeroInput EXCEPT !.montoServicios = Fx(1000),
                        !.itbisFacturado = Fx(180),
                        !.totalFactura = Fx(1180), !.ncf = NCF_B01],
      [ZeroInput EXCEPT !.montoServicios = Fx(1000),
                        !.itbisFacturado = Fx(100),
                        !.totalFactura = Fx(1100)],
      [ZeroInput EXCEPT !.montoServicios = Fx(1000),
                        !.itbisFacturado = Fx(180),
                        !.propinaLegal = Fx(108),
                        !.totalFactura = Fx(1288), !.ncf = NCF_B99,
                        !.ncfVencimiento = Date_2025_06_15],
      [ZeroInput EXCEPT !.montoServicios = Fx(1000),
                        !.itbisFacturado = Fx(180),
                        !.iscCategoria = "telecom", !.iscMonto = Fx(106),
                        !.cdtMonto = Fx(20), !.totalFactura = Fx(1306),
                        !.itbisRetenido = Fx(50),
                        !.retencionISRMonto = Fx(250),
                        !.retencionISRTipo = 7] }

InitConcurrent ==
    /\ request = Req("validate", "none", "ok", ZeroInput, ZeroInvoice)
    /\ now \in NowSet
    /\ pc = "done"
    /\ returned = <<>>
    /\ calledAt = <<>>
    /\ response = ErrorResponse(0)
    /\ saved = NoRow
    /\ shared = NewTaxValidator
    /\ calls \in [Callers -> { [input |-> in, step |-> 0, result |-> newResult,
                                clock |-> ZeroTime] : in \in ConcurrentInputs }]

\* one goroutine runs its next statement of Validate
ValidateStep ==
    \E g \in Callers :
        /\ calls[g].step < 9
        /\ calls' = [calls EXCEPT
                        ![g].result = stepResult(shared, calls[g], now),
                        ![g].clock = IF calls[g].step = 5 THEN now ELSE @,
                        ![g].step = @ + 1]
        /\ shared' = sharedAfter(shared, calls[g].step)
        /\ UNCHANGED <<request, pc, now, returned, calledAt, response, saved>>

NextConcurrent == ValidateStep \/ Tick

SpecConcurrent == InitConcurrent /\ [][NextConcurrent]_vars

----------------------------------------------------------------------------
(* The request's input and result, for the properties *)

Done == pc = "done" /\ returned # <<>>

\* the input Validate was called with
In == IF request.kind = "validate" THEN request.input
      ELSE validationInput(request.invoice)

Res == returned[1]

Codes(list) == { list[i].code : i \in 1..Len(list) }

ErrorCodes == IF Done THEN Codes(Res.errors) ELSE {}

WarningCodes == IF Done THEN Codes(Res.warnings) ELSE {}

Processed == Done /\ request.kind = "process" /\ response.success

----------------------------------------------------------------------------
(* C1: for every input, the result Validate returns has valid true exactly
   when its errors list is empty and needsReview true exactly when its
   warnings list is non-empty. *)
C1_FlagsAgreeWithLists ==
    Done => /\ Res.valid = (Len(Res.errors) = 0)
            /\ Res.needsReview = (Len(Res.warnings) > 0)

\* a result with errors but no warnings: valid is false, needsReview false
C1_Witness ==
    Done /\ Len(Res.errors) > 0 /\ Len(Res.warnings) = 0
         /\ ~Res.valid /\ ~Res.needsReview

(* C2: ProcessInvoice gives each extracted invoice exactly one status:
   error iff the result is not valid; review iff it is valid and has
   warnings or the confidence is below 0.85; validated iff it is valid, has
   no warnings and the confidence is at least 0.85. *)
C2_ExtractionStatusRule ==
    Processed =>
        LET st == response.extractionStatus
            conf == request.invoice.Confidence
            warned == Len(Res.warnings) > 0
        IN  /\ st \in {"error", "review", "validated"}
            /\ (st = "error") = ~Res.valid
            /\ (st = "review") = (Res.valid /\ (warned \/ conf < 85))
            /\ (st = "validated") = (Res.valid /\ ~warned /\ conf >= 85)

\* a confidence of exactly 0.85 on a clean result is validated
C2_Witness ==
    /\ Processed
    /\ request.invoice.Confidence = 85
    /\ Res.valid /\ Len(Res.warnings) = 0
    /\ response.extractionStatus = "validated"

(* C3: in the ProcessInvoice flow the validation object serialized into the
   response and into review_notes is the result Validate returned; in
   particular its needs_review is true exactly when it has warnings. *)
C3_SerializedResultUnchanged ==
    Processed =>
        /\ response.validation[1] = Res
        /\ response.validation[1].needsReview
             = (Len(response.validation[1].warnings) > 0)
        /\ \A i \in 1..Len(saved) :
             \A j \in 1..Len(saved[i].ReviewNotes) :
                saved[i].ReviewNotes[j] = Res

----------------------------------------------------------------------------
(* The reference values as the specification words them, in exact
   arithmetic on the request's amounts, in cents *)

AmountFields ==
    {"montoServicios", "montoBienes", "descuento", "itbisFacturado",
     "itbisTasa", "itbisExento", "itbisRetenido", "itbisProporcionalidad",
     "itbisCosto", "iscMonto", "cdtMonto", "cargo911", "propinaLegal",
     "otrosImpuestos", "montoNoFacturable", "retencionISRMonto",
     "totalFactura"}

Cents(x) == x \div Scale

InC == [k \in AmountFields |-> Cents(In[k])]

Max0(x) == IF x < 0 THEN 0 ELSE x

Subtotal == InC.montoServicios + InC.montoBienes

BaseOf == Max0(Subtotal - InC.descuento - InC.itbisExento)

FacturadoOf == Subtotal - InC.descuento

RateOf == IF InC.itbisTasa = 1600 THEN 16 ELSE 18

TotalOf == FacturadoOf + InC.itbisFacturado + InC.iscMonto + InC.cdtMonto
           + InC.cargo911 + InC.propinaLegal + InC.otrosImpuestos

\* c is x rounded to two decimals: a whole number of cents, at most half a
\* cent from x; x is given as num / den
IsRounded(c, num, den) ==
    /\ c % Scale = 0
    /\ 2 * Abs(Cents(c) * den - num) <= den

ZeroBase ==
    /\ InC.montoServicios = 0 /\ InC.montoBienes = 0
    /\ InC.descuento = 0 /\ InC.itbisExento = 0

(* C4: for every input, including a descuento above montoServicios +
   montoBienes and negative tax components, baseGravada, itbisEsperado,
   totalEsperado and montoFacturado of the result are all >= 0. *)
C4_ComputedNeverNegative ==
    Done => /\ Res.computed.baseGravada >= 0
            /\ Res.computed.itbisEsperado >= 0
            /\ Res.computed.totalEsperado >= 0
            /\ Res.computed.montoFacturado >= 0

(* C4 amended: baseGravada and itbisEsperado are >= 0 for every input,
   baseGravada being 0 when the arithmetic would go negative; montoFacturado
   and totalEsperado are not clamped and are negative when their sums are. *)
C4_BaseClampedRestSigned ==
    Done => /\ Res.computed.baseGravada >= 0
            /\ Res.computed.itbisEsperado >= 0
            /\ (Subtotal - InC.descuento - InC.itbisExento < 0
                  => Res.computed.baseGravada = 0)
            /\ (FacturadoOf < 0 => Res.computed.montoFacturado < 0)
            /\ (TotalOf < 0 => Res.computed.totalEsperado < 0)

\* the descuento exceeds the subtotal: base clamped, montoFacturado negative
C4_Witness ==
    /\ Done
    /\ InC.descuento > Subtotal /\ Subtotal > 0
    /\ Res.computed.baseGravada = 0
    /\ Res.computed.montoFacturado < 0
    /\ Res.computed.totalEsperado < 0

(* C5: the reference values are baseGravada = max(0, montoServicios +
   montoBienes - descuento - itbisExento), montoFacturado = montoServicios +
   montoBienes - descuento, itbisEsperado = baseGravada * 16% when itbisTasa
   is 16 and * 18% for any other value, and totalEsperado = montoFacturado +
   itbisFacturado + iscMonto + cdtMonto + cargo911 + propinaLegal +
   otrosImpuestos; each is reported rounded to two decimals. *)
C5_ReferenceValues ==
    Done => /\ IsRounded(Res.computed.baseGravada, BaseOf, 1)
            /\ IsRounded(Res.computed.montoFacturado, FacturadoOf, 1)
            /\ IsRounded(Res.computed.itbisEsperado, BaseOf * RateOf, 100)
            /\ IsRounded(Res.computed.totalEsperado, TotalOf, 1)

\* a 16% invoice with an exemption, a tip and other taxes, whose expected
\* ITBIS needs rounding
C5_Witness ==
    /\ Done
    /\ InC.itbisTasa = 1600
    /\ BaseOf > 0 /\ (BaseOf * 16) % 100 # 0
    /\ Cents(Res.computed.itbisEsperado) * 100 > BaseOf * 16

(* C6: the result has error itbis_mismatch exactly when baseGravada > 0 and
   |itbisFacturado - itbisEsperado| > baseGravada * 0.05; a difference equal
   to the tolerance raises nothing and a base <= 0 skips the check. *)
C6_ItbisMismatchIff ==
    Done => ( ("itbis_mismatch" \in ErrorCodes)
              = ( /\ BaseOf > 0
                  /\ Abs(100 * InC.itbisFacturado - RateOf * BaseOf)
                       > 5 * BaseOf ) )

\* the difference is exactly the tolerance and no error is raised
C6_Witness ==
    /\ Done
    /\ BaseOf > 0
    /\ Abs(100 * InC.itbisFacturado - RateOf * BaseOf) = 5 * BaseOf
    /\ "itbis_mismatch" \notin ErrorCodes

(* C7: for every input with montoServicios = montoBienes = descuento =
   itbisExento = 0 the result has neither itbis_mismatch nor total_mismatch,
   whatever totalFactura, itbisFacturado and the other fields are. *)
C7_ZeroBaseGuard ==
    (Done /\ ZeroBase) =>
        /\ "itbis_mismatch" \notin ErrorCodes
        /\ "total_mismatch" \notin ErrorCodes

(* C7 amended: for every input with montoServicios = montoBienes =
   descuento = itbisExento = 0 the result has no itbis_mismatch; the total
   check is not guarded by the base and raises total_mismatch exactly when
   totalFactura > 0 and |totalFactura - totalEsperado| > totalFactura * 0.05. *)
C7_ZeroBaseGuardsItbisOnly ==
    (Done /\ ZeroBase) =>
        /\ "itbis_mismatch" \notin ErrorCodes
        /\ ("total_mismatch" \in ErrorCodes)
             = ( /\ InC.totalFactura > 0
                 /\ 100 * Abs(InC.totalFactura - TotalOf)
                      > 5 * InC.totalFactura )

\* a zero base with ITBIS and a total on the invoice
C7_Witness ==
    /\ Done /\ ZeroBase
    /\ InC.itbisFacturado > 0 /\ InC.totalFactura > 0
    /\ "itbis_mismatch" \notin ErrorCodes
    /\ "total_mismatch" \in ErrorCodes

(* C8: the result has error total_mismatch exactly when totalFactura > 0 and
   |totalFactura - totalEsperado| > totalFactura * 0.05; a totalFactura <= 0
   skips the check. *)
C8_TotalMismatchIff ==
    Done => ( ("total_mismatch" \in ErrorCodes)
              = ( /\ InC.totalFactura > 0
                  /\ 100 * Abs(InC.totalFactura - TotalOf)
                       > 5 * InC.totalFactura ) )

\* the total is off by exactly its tolerance and no error is raised
C8_Witness ==
    /\ Done
    /\ InC.totalFactura > 0
    /\ 100 * Abs(InC.totalFactura - TotalOf) = 5 * InC.totalFactura
    /\ "total_mismatch" \notin ErrorCodes

(* C9: the result has warning propina_mismatch exactly when propinaLegal > 0,
   montoFacturado > 0 and |propinaLegal - 0.10 * montoFacturado| exceeds 10%
   of 0.10 * montoFacturado; the check never adds an error. *)
C9_PropinaMismatchIff ==
    Done => /\ ("propina_mismatch" \in WarningCodes)
               = ( /\ InC.propinaLegal > 0
                   /\ FacturadoOf > 0
                   /\ Abs(100 * InC.propinaLegal - 10 * FacturadoOf)
                        > FacturadoOf )
            /\ \A i \in 1..Len(Res.errors) :
                  /\ Res.errors[i].code # "propina_mismatch"
                  /\ Res.errors[i].field # "propina_legal"

\* a tip 10% above the expected one passes, though 5% would not allow it,
\* and the result stays valid
C9_Witness ==
    /\ Done
    /\ FacturadoOf > 0
    /\ 100 * InC.propinaLegal = 11 * FacturadoOf
    /\ "propina_mismatch" \notin WarningCodes
    /\ Res.valid

(* C10: the telecom check runs only when iscCategoria is "telecom" and
   baseGravada > 0; then isc_telecom_mismatch is warned exactly when
   |iscMonto - 0.10 * baseGravada| exceeds 5% of the expected ISC and
   cdt_mismatch exactly when |cdtMonto - 0.02 * baseGravada| exceeds 5% of
   the expected CDT, independently of each other; both are warnings only,
   and any other category produces neither. *)
C10_TelecomWarnings ==
    Done =>
        LET runs == In.iscCategoria = "telecom" /\ BaseOf > 0
        IN  /\ ("isc_telecom_mismatch" \in WarningCodes)
                 = (runs /\ Abs(200 * InC.iscMonto - 20 * BaseOf) > BaseOf)
            /\ ("cdt_mismatch" \in WarningCodes)
                 = (runs /\ Abs(1000 * InC.cdtMonto - 20 * BaseOf) > BaseOf)
            /\ "isc_telecom_mismatch" \notin ErrorCodes
            /\ "cdt_mismatch" \notin ErrorCodes

\* both surcharges are off: both warnings, the result valid and for review
C10_Witness ==
    /\ Done
    /\ In.iscCategoria = "telecom"
    /\ {"isc_telecom_mismatch", "cdt_mismatch"} \subseteq WarningCodes
    /\ Res.valid /\ Res.needsReview

\* the two sub-checks fire separately as well
C10_OnlyISC ==
    /\ Done
    /\ "isc_telecom_mismatch" \in WarningCodes
    /\ "cdt_mismatch" \notin WarningCodes

C10_OnlyCDT ==
    /\ Done
    /\ "isc_telecom_mismatch" \notin WarningCodes
    /\ "cdt_mismatch" \in WarningCodes

C10_NeitherAtTolerance ==
    /\ Done
    /\ In.iscCategoria = "telecom" /\ BaseOf > 0
    /\ Abs(200 * InC.iscMonto - 20 * BaseOf) = BaseOf
    /\ Abs(1000 * InC.cdtMonto - 20 * BaseOf) = BaseOf
    /\ WarningCodes \cap {"isc_telecom_mismatch", "cdt_mismatch"} = {}

----------------------------------------------------------------------------
(* The NCF rules as the specification words them *)

\* one letter B or E, then 10 to 12 digits
FormatOK(s) ==
    /\ Len(s) \in {11, 12, 13}
    /\ s[1] = "B" \/ s[1] = "E"
    /\ \A i \in 2..Len(s) : s[i] \in Digits

NCFCodes == {"ncf_invalid_format", "ncf_unknown_type", "ncf_expired"}

AllCodes == ErrorCodes \cup WarningCodes

(* C11: with an empty ncf the NCF check produces no finding; with a
   non-empty ncf that does not match ^[BE][0-9]{10,12}$ the result has error
   ncf_invalid_format and neither ncf_unknown_type nor ncf_expired, even
   when ncfVencimiento is a past date. *)
C11_FormatShortCircuits ==
    Done =>
        /\ In.ncf = <<>> => AllCodes \cap NCFCodes = {}
        /\ (In.ncf # <<>> /\ ~FormatOK(In.ncf)) =>
              /\ "ncf_invalid_format" \in ErrorCodes
              /\ "ncf_unknown_type" \notin AllCodes
              /\ "ncf_expired" \notin AllCodes

\* a malformed NCF of an unknown type with an expiry long past
C11_Witness ==
    /\ Done
    /\ Len(In.ncf) = 11 /\ ~FormatOK(In.ncf)
    /\ SubSeq(In.ncf, 1, 3) = <<"X", "0", "1">>
    /\ In.ncfVencimiento = Date_2025_01_10
    /\ "ncf_invalid_format" \in ErrorCodes

\* the 14 type codes the specification lists
TypeCodes ==
    { <<"B", "0", d>> : d \in {"1", "2", "4"} }
    \cup { <<"B", "1", d>> : d \in {"4", "5", "6"} }
    \cup { <<"E", "3", d>> : d \in {"1", "2", "3", "4"} }
    \cup { <<"E", "4", d>> : d \in {"1", "3", "4", "5"} }

\* the calendar day an expiry string names, <<>> when it names none
CalendarDate(s) ==
    IF s = Date_2025_01_10 THEN <<2025, 1, 10>>
    ELSE IF s = Date_2025_06_14 THEN <<2025, 6, 14>>
    ELSE IF s = Date_2025_06_15 THEN <<2025, 6, 15>>
    ELSE IF s = Date_2025_06_16 THEN <<2025, 6, 16>>
    ELSE <<>>

\* the expiry string names a day whose 00:00 UTC is strictly before t
Expired(s, t) ==
    /\ CalendarDate(s) # <<>>
    /\ LET c == CalendarDate(s)
           day == DayOrd(c[1], c[2], c[3])
       IN  day < t.day \/ (day = t.day /\ t.nanos > 0)

(* C12: when the NCF format passes, warning ncf_unknown_type is produced
   exactly when the first three characters are not one of the 14 type
   codes; it is never an error, valid stays true when there is no error,
   and an expired NCF of unknown type is still reported as expired. *)
C12_UnknownTypeIsWarningOnly ==
    (Done /\ FormatOK(In.ncf)) =>
        /\ "ncf_unknown_type" \in WarningCodes
              <=> SubSeq(In.ncf, 1, 3) \notin TypeCodes
        /\ "ncf_unknown_type" \notin ErrorCodes
        /\ ("ncf_unknown_type" \in WarningCodes /\ ErrorCodes = {})
              => Res.valid
        /\ (SubSeq(In.ncf, 1, 3) \notin TypeCodes
            /\ Expired(In.ncfVencimiento, now))
              => "ncf_expired" \in ErrorCodes

\* B99 with a past expiry: both the warning and the expiry error
C12_Witness ==
    /\ Done
    /\ In.ncf = NCF_B99
    /\ In.ncfVencimiento = Date_2025_01_10
    /\ "ncf_unknown_type" \in WarningCodes
    /\ "ncf_expired" \in ErrorCodes

\* B99 and nothing else wrong: a valid result that needs review
C12_ValidWithUnknownType ==
    /\ Done
    /\ In.ncf = NCF_B99
    /\ "ncf_unknown_type" \in WarningCodes
    /\ Res.valid

\* the fields the findings of the result are about
Fields(list) == { list[i].field : i \in 1..Len(list) }

FindingFields == IF Done THEN Fields(Res.errors) \cup Fields(Res.warnings)
                 ELSE {}

(* C13: error ncf_expired is produced exactly when the NCF format passes
   and ncfVencimiento is non-empty, parses as a YYYY-MM-DD date and that
   date is strictly before the current instant; an empty or unparseable
   ncfVencimiento, or a date not before now, yields no finding. *)
C13_ExpiredIffStrictlyBeforeNow ==
    Done =>
        /\ "ncf_expired" \in ErrorCodes
              <=> (FormatOK(In.ncf) /\ Expired(In.ncfVencimiento, now))
        /\ "ncf_expired" \notin WarningCodes
        /\ ~Expired(In.ncfVencimiento, now)
              => "ncf_vencimiento" \notin FindingFields

\* an NCF whose expiry day began one clock tick ago
C13_Witness ==
    /\ Done
    /\ In.ncfVencimiento = Date_2025_06_15
    /\ now = Instant(2025, 6, 15, 1)
    /\ "ncf_expired" \in ErrorCodes

\* the same expiry at the very instant the day begins: not yet expired
C13_NotExpiredAtMidnight ==
    /\ Done
    /\ FormatOK(In.ncf)
    /\ In.ncfVencimiento = Date_2025_06_15
    /\ now = Instant(2025, 6, 15, 0)
    /\ "ncf_expired" \notin ErrorCodes

\* an expiry that names no day of the calendar
C13_UnparseableExpiry ==
    /\ Done
    /\ FormatOK(In.ncf)
    /\ In.ncfVencimiento = Date_2025_02_30
    /\ "ncf_vencimiento" \notin FindingFields

----------------------------------------------------------------------------
(* The retention rules as the specification words them *)

(* C14: the result contains error missing_payment_date exactly when
   itbisRetenido > 0 or retencionISRMonto > 0, and fechaPago is empty; with
   a fechaPago, or with both retention amounts at most 0, it never does. *)
C14_PaymentDateRequired ==
    Done =>
        /\ "missing_payment_date" \in ErrorCodes
              <=> /\ In.itbisRetenido > 0 \/ In.retencionISRMonto > 0
                  /\ In.fechaPago = <<>>
        /\ "missing_payment_date" \notin WarningCodes

\* an ITBIS retention of 0.50 alone, without a payment date
C14_Witness ==
    /\ Done
    /\ InC.itbisRetenido = 50 /\ InC.retencionISRMonto = 0
    /\ In.fechaPago = <<>>
    /\ "missing_payment_date" \in ErrorCodes

\* the same retention with its payment date
C14_WithPaymentDate ==
    /\ Done
    /\ InC.itbisRetenido = 50
    /\ In.fechaPago = Date_2025_01_10
    /\ "missing_payment_date" \notin ErrorCodes

\* the rate the specification gives a retention type, in percent
RateOfTipo(t) == IF t = 6 THEN 25 ELSE IF t = 7 THEN 27 ELSE 10

\* |monto - base * rate%| > 5% of (base * rate%), all in cents
IsrOff(monto, base, rate) ==
    Abs(100 * monto - base * rate) * 20 > base * rate

(* C15: with retencionISRMonto > 0 and retencionISRTipo outside 1..8 the
   result has error missing_retencion_tipo and no isr_rate_mismatch; with
   the type in 1..8 there is no missing_retencion_tipo, and warning
   isr_rate_mismatch is produced exactly when the base montoServicios +
   montoBienes - descuento is positive and the amount is more than 5% away
   from base * rate, the rate being 10% for types 1,2,3,4,5,8, 25% for
   type 6 and 27% for type 7; with retencionISRMonto <= 0 neither finding
   is produced. *)
C15_IsrRetention ==
    Done =>
        LET monto == InC.retencionISRMonto
            tipo == In.retencionISRTipo
            base == Subtotal - InC.descuento
        IN  /\ monto <= 0 =>
                  /\ "missing_retencion_tipo" \notin AllCodes
                  /\ "isr_rate_mismatch" \notin AllCodes
            /\ (monto > 0 /\ tipo \notin 1..8) =>
                  /\ "missing_retencion_tipo" \in ErrorCodes
                  /\ "isr_rate_mismatch" \notin AllCodes
            /\ (monto > 0 /\ tipo \in 1..8) =>
                  /\ "missing_retencion_tipo" \notin AllCodes
                  /\ "isr_rate_mismatch" \notin ErrorCodes
                  /\ "isr_rate_mismatch" \in WarningCodes
                        <=> (base > 0 /\ IsrOff(monto, base, RateOfTipo(tipo)))

\* 2.50 retained on a base of 10.00 as type 7: 2.70 was expected
C15_Witness ==
    /\ Done
    /\ In.retencionISRTipo = 7 /\ InC.retencionISRMonto = 250
    /\ Subtotal - InC.descuento = 1000
    /\ "isr_rate_mismatch" \in WarningCodes

\* the same amount as type 6 is the expected 25%
C15_Type6Exact ==
    /\ Done
    /\ In.retencionISRTipo = 6 /\ InC.retencionISRMonto = 250
    /\ Subtotal - InC.descuento = 1000
    /\ "isr_rate_mismatch" \notin WarningCodes

\* a retention with a type outside 1..8
C15_MissingTipo ==
    /\ Done
    /\ In.retencionISRTipo = 9 /\ InC.retencionISRMonto > 0
    /\ "missing_retencion_tipo" \in ErrorCodes

\* a positive retention of a known type on a base that is not positive
C15_NoBase ==
    /\ Done
    /\ In.retencionISRTipo \in 1..8 /\ InC.retencionISRMonto > 0
    /\ Subtotal - InC.descuento <= 0
    /\ "isr_rate_mismatch" \notin WarningCodes

----------------------------------------------------------------------------
(* The coherence rules as the specification words them *)

(* C16: the result contains error no_amounts exactly when montoServicios
   and montoBienes are both 0, whatever the other fields hold, and every
   such input has valid false. *)
C16_NoAmountsIff ==
    Done =>
        /\ "no_amounts" \in ErrorCodes
              <=> (In.montoServicios = 0 /\ In.montoBienes = 0)
        /\ "no_amounts" \notin WarningCodes
        /\ (In.montoServicios = 0 /\ In.montoBienes = 0) => ~Res.valid

\* no amounts, while ITBIS, total and NCF are all filled in
C16_Witness ==
    /\ Done
    /\ In.montoServicios = 0 /\ In.montoBienes = 0
    /\ InC.itbisFacturado = 180 /\ InC.totalFactura = 1180
    /\ In.ncf = NCF_B01
    /\ "no_amounts" \in ErrorCodes
    /\ ~Res.valid

\* goods only: the amounts are there
C16_GoodsOnly ==
    /\ Done
    /\ In.montoServicios = 0 /\ In.montoBienes > 0
    /\ "no_amounts" \notin ErrorCodes

\* the taxed base before clamping, in cents
GravadaOf == Subtotal - InC.descuento - InC.itbisExento

(* C17: warning itbis_exento_exceeds_base is produced whenever itbisExento
   > 0 and (montoServicios + montoBienes - descuento) - itbisExento < 0,
   whatever itbisFacturado is, 0 included. *)
C17_ExentoExceedsBase ==
    (Done /\ InC.itbisExento > 0 /\ GravadaOf < 0)
        => "itbis_exento_exceeds_base" \in WarningCodes

\* what validateCoherence does: the warning also needs itbisFacturado > 0
C17_ExentoNeedsFacturado ==
    Done =>
        ("itbis_exento_exceeds_base" \in WarningCodes
            <=> (InC.itbisFacturado > 0 /\ InC.itbisExento > 0 /\ GravadaOf < 0))

\* an exempt amount above the base with no ITBIS invoiced: no warning
C17_SilentWithoutFacturado ==
    /\ Done
    /\ InC.montoServicios = 1000 /\ InC.montoBienes = 0 /\ InC.descuento = 0
    /\ InC.itbisExento = 2500 /\ InC.itbisFacturado = 0
    /\ "itbis_exento_exceeds_base" \notin WarningCodes

ZeroComputed ==
    [baseGravada |-> 0, itbisEsperado |-> 0, totalEsperado |-> 0,
     montoFacturado |-> 0]

(* C18: for the zero-filled input (every amount 0, retencionISRTipo 0,
   every string empty) each of the seven checks produces zero findings:
   the result has empty errors, empty warnings and all four computed
   values equal to 0. *)
C18_ZeroInputNoFindings ==
    (Done /\ In = ZeroInput) =>
        /\ Res.errors = <<>>
        /\ Res.warnings = <<>>
        /\ Res.computed = ZeroComputed

(* C18 as amended: for the zero-filled input the only finding is the
   coherence check's error no_amounts on monto_servicios; warnings is
   empty, valid is false, needsReview is false and all four computed
   values are 0. *)
C18_ZeroInputOnlyNoAmounts ==
    (Done /\ In = ZeroInput) =>
        /\ Len(Res.errors) = 1
        /\ Res.errors[1].code = "no_amounts"
        /\ Res.errors[1].field = "monto_servicios"
        /\ Res.warnings = <<>>
        /\ ~Res.valid /\ ~Res.needsReview
        /\ Res.computed = ZeroComputed

\* Validate has returned for the zero-filled input sent to the endpoint
C18_Witness ==
    /\ Done
    /\ request.kind = "validate"
    /\ In = ZeroInput
    /\ ErrorCodes = {"no_amounts"}

----------------------------------------------------------------------------
(* Validate called again on the same input *)

Calls == 1..Len(returned)

\* a list of errors without the expiry error
WithoutExpired(errors) ==
    LET NotExpired(e) == e.code # "ncf_expired"
    IN  SelectSeq(errors, NotExpired)

\* whether the call at instant t falls after the expiry of the input's NCF
ExpiredAt(t) == FormatOK(In.ncf) /\ Expired(In.ncfVencimiento, t)

(* C19: two calls of Validate on identical input return identical results
   (same valid, needsReview, errors, warnings and computed values),
   whenever the two calls are made, including when the input carries a
   non-empty ncfVencimiento and the clock advances between the calls. *)
C19_SameInputSameResult ==
    \A i, j \in Calls : returned[i] = returned[j]

(* C19 as amended: two calls of Validate on identical input return the
   same warnings, computed values and errors other than ncf_expired; the
   two results are identical exactly when the two calls fall on the same
   side of the NCF's expiry, which is always so when ncfVencimiento is
   empty or unparseable or the NCF format fails. *)
C19_SameResultUntilExpiry ==
    \A i, j \in Calls :
        /\ returned[i].warnings = returned[j].warnings
        /\ returned[i].needsReview = returned[j].needsReview
        /\ returned[i].computed = returned[j].computed
        /\ WithoutExpired(returned[i].errors) = WithoutExpired(returned[j].errors)
        /\ returned[i] = returned[j]
              <=> (ExpiredAt(calledAt[i]) <=> ExpiredAt(calledAt[j]))

\* a consistent B01 invoice expiring 2025-06-15, validated at 00:00 that day
\* and again one tick later: valid the first time, expired the second
C19_Witness ==
    /\ Len(returned) = 2
    /\ In.ncf = NCF_B01 /\ In.ncfVencimiento = Date_2025_06_15
    /\ calledAt[1] = Instant(2025, 6, 15, 0)
    /\ calledAt[2] = Instant(2025, 6, 15, 1)
    /\ returned[1].valid /\ returned[1].errors = <<>>
    /\ ~returned[2].valid
    /\ Codes(returned[2].errors) = {"ncf_expired"}

\* two calls on either side of the expiry of an NCF of unknown type
C19_UnknownTypeBothTimes ==
    /\ Len(returned) = 2
    /\ In.ncf = NCF_B99
    /\ ~ExpiredAt(calledAt[1]) /\ ExpiredAt(calledAt[2])
    /\ Codes(returned[1].warnings) = {"ncf_unknown_type"}
    /\ returned[1].warnings = returned[2].warnings

----------------------------------------------------------------------------
(* The confidence rubric as the specification words it, in hundredths *)

Extracted == request.invoice

Pt(cond, points) == IF cond THEN points ELSE 0

\* the four critical and the four important criteria
FieldPoints(inv) ==
    Pt(inv.NCF # <<>>, 15) + Pt(inv.RNCEmisor # <<>>, 15)
    + Pt(inv.Total > 0, 15) + Pt(inv.ITBIS >= 0, 15)
    + Pt(inv.FechaFactura # ZeroTime, 5) + Pt(inv.Subtotal > 0, 5)
    + Pt(inv.TipoNCF # <<>>, 5) + Pt(inv.NombreEmisor # "", 5)

\* total is within 5% of subtotal + ITBIS, checked only with both positive
TotalConsistent(inv) ==
    /\ inv.Total > 0 /\ inv.Subtotal > 0
    /\ Abs(inv.Total - (inv.Subtotal + inv.ITBIS)) * 20 <= inv.Total

\* the sum of the points of the rubric: the NCF bonus goes to an NCF that
\* matches the format of the NCF check
RubricPoints(inv) ==
    FieldPoints(inv) + Pt(FormatOK(inv.NCF), 10) + Pt(TotalConsistent(inv), 10)

AllTen(inv) == RubricPoints(inv) = 4 * 15 + 4 * 5 + 2 * 10

Min100(x) == IF x > 100 THEN 100 ELSE x

(* C20: the confidence score is within [0, 1] and equals min(1, sum of
   points): 0.15 for each of NCF non-empty, issuer RNC non-empty, total > 0
   and ITBIS not negative (so every invoice with ITBIS >= 0 scores at least
   0.15), 0.05 for each of invoice date present, subtotal > 0, tipoNCF
   non-empty and issuer name non-empty, plus the two 0.10 bonuses; an
   invoice satisfying all ten conditions scores exactly 1.00. *)
C20_ScoreIsCappedSum ==
    Processed =>
        /\ Extracted.Confidence \in 0..100
        /\ Extracted.Confidence = Min100(RubricPoints(Extracted))
        /\ Extracted.ITBIS >= 0 => Extracted.Confidence >= 15
        /\ AllTen(Extracted) => Extracted.Confidence = 100

\* what calculateConfidence does: the claim's sum, with the NCF bonus going
\* to the NCFs its own pattern accepts
C20_ScoreWithExtractorPattern ==
    Processed =>
        /\ Extracted.Confidence \in 0..100
        /\ Extracted.Confidence
              = Min100(FieldPoints(Extracted) + Pt(ncfRegex(Extracted.NCF), 10)
                       + Pt(TotalConsistent(Extracted), 10))
        /\ Extracted.ITBIS >= 0 => Extracted.Confidence >= 15

\* an invoice meeting all ten conditions of the rubric that scores 0.90
C20_AllTenBelowOne ==
    /\ Processed
    /\ Extracted.NCF = NCF_B99
    /\ AllTen(Extracted)
    /\ Extracted.Confidence = 90

\* the invoice of the end-to-end example scores 1.00
C20_AllTenScoresOne ==
    /\ Processed
    /\ Extracted.NCF = NCF_B01
    /\ AllTen(Extracted)
    /\ Extracted.Confidence = 100

\* nothing extracted at all: the ITBIS point alone
C20_EmptyInvoiceScores15 ==
    /\ Processed
    /\ FieldPoints(Extracted) = 15 /\ Extracted.ITBIS = 0
    /\ Extracted.Confidence = 15

\* the points of the score left once the eight field criteria and the
\* total-consistency bonus are taken out: the NCF-format bonus as awarded
NcfBonusAwarded ==
    Extracted.Confidence - FieldPoints(Extracted)
        - Pt(TotalConsistent(Extracted), 10) = 10

(* C21: the 0.10 NCF-format bonus of the confidence score is awarded
   exactly when the NCF matches the format ^[BE][0-9]{10,12}$ of the NCF
   check, so a non-empty NCF earns the bonus exactly when the validator
   does not report ncf_invalid_format for it. *)
C21_BonusIffValidatorFormat ==
    Processed =>
        /\ NcfBonusAwarded <=> FormatOK(Extracted.NCF)
        /\ Extracted.NCF # <<>> =>
              (NcfBonusAwarded <=> "ncf_invalid_format" \notin ErrorCodes)

\* what calculateConfidence does: the bonus goes to the NCFs of ncfRegex
C21_BonusIffExtractorPattern ==
    Processed => (NcfBonusAwarded <=> ncfRegex(Extracted.NCF))

\* B99: the validator accepts the format, the score gives no bonus
C21_AcceptedWithoutBonus ==
    /\ Processed
    /\ Extracted.NCF = NCF_B99
    /\ "ncf_invalid_format" \notin ErrorCodes
    /\ ~NcfBonusAwarded

\* E31 and 13 digits: the validator rejects the format, the score gives
\* the bonus
C21_BonusWithInvalidFormat ==
    /\ Processed
    /\ Len(Extracted.NCF) = 16
    /\ "ncf_invalid_format" \in ErrorCodes
    /\ NcfBonusAwarded

\* the points of the score left once the eight field criteria and the
\* NCF-format bonus are taken out: the total-consistency bonus as awarded
TotalBonusAwarded ==
    Extracted.Confidence - FieldPoints(Extracted)
        - Pt(ncfRegex(Extracted.NCF), 10) = 10

(* C22: the 0.10 total-consistency bonus of the confidence score is
   awarded exactly when total > 0, subtotal > 0 and |total - (subtotal +
   ITBIS)| <= 5% of total, the boundary included; with total <= 0 or
   subtotal <= 0 it is never awarded. *)
C22_TotalBonusIff ==
    Processed =>
        /\ TotalBonusAwarded
              <=> /\ Extracted.Total > 0 /\ Extracted.Subtotal > 0
                  /\ Abs(Extracted.Total
                         - (Extracted.Subtotal + Extracted.ITBIS)) * 100
                        <= 5 * Extracted.Total
        /\ (Extracted.Total <= 0 \/ Extracted.Subtotal <= 0)
              => ~TotalBonusAwarded

\* total 20.00 against 10.00 + 9.00: off by exactly 5% of the total
C22_Witness ==
    /\ Processed
    /\ Extracted.Total = 2000 /\ Extracted.Subtotal = 1000
    /\ Extracted.ITBIS = 900
    /\ TotalBonusAwarded

\* one cent more on the total and the bonus is gone
C22_JustOverTolerance ==
    /\ Processed
    /\ Extracted.Total = 2001 /\ Extracted.Subtotal = 1000
    /\ Extracted.ITBIS = 900
    /\ ~TotalBonusAwarded

\* a consistent total without a subtotal earns nothing
C22_NoSubtotalNoBonus ==
    /\ Processed
    /\ Extracted.Total = 1180 /\ Extracted.Subtotal = 0
    /\ ~TotalBonusAwarded

----------------------------------------------------------------------------
(* Validate called from several goroutines *)

(* C23: any number of Validate calls may run at once on the same
   TaxValidator: Validate writes no state shared between calls, so under
   every interleaving each call returns the result it would return if run
   alone. *)
C23_EachCallAsIfAlone ==
    /\ shared = NewTaxValidator
    /\ \A g \in DOMAIN calls :
          calls[g].step = 9 =>
              calls[g].result
                  = Validate(NewTaxValidator, calls[g].input, calls[g].clock)

\* both goroutines have returned, having read the clock on either side of
\* the expiry of the same NCF: the other one's run changed neither result
C23_Witness ==
    /\ DOMAIN calls = Callers
    /\ \A g \in Callers : calls[g].step = 9
    /\ calls["a"].input = calls["b"].input
    /\ calls["a"].input.ncfVencimiento = Date_2025_06_15
    /\ Codes(calls["a"].result.errors) = {"ncf_expired"}
    /\ calls["b"].result.errors = <<>>

\* two goroutines in the middle of different checks of different inputs
C23_BothInFlight ==
    /\ DOMAIN calls = Callers
    /\ calls["a"].step = 5 /\ calls["b"].step = 2
    /\ calls["a"].input # calls["b"].input
    /\ calls["a"].result.warnings # <<>>
    /\ calls["b"].result.errors # <<>>

----------------------------------------------------------------------------
(* The order of the findings *)

ErrorOrder ==
    <<"itbis_mismatch", "total_mismatch", "ncf_invalid_format", "ncf_expired",
      "missing_payment_date", "missing_retencion_tipo", "no_amounts">>

WarningOrder ==
    <<"propina_mismatch", "isc_telecom_mismatch", "cdt_mismatch",
      "ncf_unknown_type", "isr_rate_mismatch", "itbis_exento_exceeds_base",
      "descuento_exceeds_subtotal">>

\* the codes of the list are codes of order, strictly in its order
InOrder(list, order) ==
    /\ \A i \in 1..Len(list) : \E k \in 1..Len(order) : order[k] = list[i].code
    /\ \A i, j \in 1..Len(list) :
          i < j => \E k, l \in 1..Len(order) :
                       /\ k < l
                       /\ order[k] = list[i].code
                       /\ order[l] = list[j].code

\* what check k finds when it runs on a result without findings
Alone(k) ==
    stepResult(NewTaxValidator,
               [input |-> In, step |-> k, result |-> newResult,
                clock |-> now],
               now)

(* C24: findings are listed in check order and each code appears at most
   once: errors only hold the seven error codes and warnings the seven
   warning codes, each list in the order of the checks; no code of one list
   appears in the other, and what a check finds does not depend on the
   findings the checks before it appended. *)
C24_FindingsInCheckOrder ==
    Done =>
        /\ InOrder(Res.errors, ErrorOrder)
        /\ InOrder(Res.warnings, WarningOrder)
        /\ \A k, l \in 1..7 : ErrorOrder[k] # WarningOrder[l]
        /\ Res.errors = Alone(1).errors \o Alone(2).errors \o Alone(3).errors
                        \o Alone(4).errors \o Alone(5).errors
                        \o Alone(6).errors \o Alone(7).errors
        /\ Res.warnings = Alone(1).warnings \o Alone(2).warnings
                          \o Alone(3).warnings \o Alone(4).warnings
                          \o Alone(5).warnings \o Alone(6).warnings
                          \o Alone(7).warnings

\* a result where five of the checks each found something
C24_Witness ==
    /\ Done
    /\ Len(Res.errors) >= 4
    /\ Len(Res.warnings) >= 3
    /\ "no_amounts" \in ErrorCodes
    /\ "missing_payment_date" \in ErrorCodes

----------------------------------------------------------------------------
(* What the handlers store *)

Stored == saved # NoRow

Row == saved[1]

\* the validator ran for this request and found nothing, and the score is
\* at least 0.85
CleanAndConfident ==
    /\ returned # <<>>
    /\ Res.valid /\ Res.warnings = <<>>
    /\ Row.ConfidenceScore >= 85

(* C25: whichever handler writes the invoice record, ProcessInvoice or
   ReprocesarClientInvoice, a record is stored with extraction_status
   'validated' (and estado 'procesado') only if the tax validator was run
   on the extracted data and returned valid with no warnings and the
   confidence score is >= 0.85. *)
C25_ValidatedOnlyIfClean ==
    (Stored /\ (Row.ExtractionStatus = "validated" \/ Row.Estado = "procesado"))
        => CleanAndConfident

\* the claim restricted to the rows ProcessInvoice writes
C25_ProcessInvoiceOnly ==
    (Stored /\ request.kind = "process"
     /\ (Row.ExtractionStatus = "validated" \/ Row.Estado = "procesado"))
        => CleanAndConfident

\* a reprocessed invoice without amounts stored as validated
C25_ReprocessedUnchecked ==
    /\ Stored /\ request.kind = "reprocess" /\ pc = "done"
    /\ request.invoice.Subtotal = 0
    /\ Row.ExtractionStatus = "validated" /\ Row.Estado = "procesado"
    /\ returned = <<>>

(* C26: ProcessInvoice builds the validator input without fechaPago and
   without ncfVencimiento, so every extracted invoice with itbisRetenido >
   0 or ISR > 0 gets error missing_payment_date and extraction_status
   'error', whether or not a payment date was extracted, and no invoice
   processed by ProcessInvoice ever gets ncf_expired. *)
C26_RetentionsAlwaysError ==
    Processed =>
        /\ In.fechaPago = <<>> /\ In.ncfVencimiento = <<>>
        /\ (Extracted.ITBISRetenido > 0 \/ Extracted.ISR > 0) =>
              /\ "missing_payment_date" \in ErrorCodes
              /\ response.extractionStatus = "error"
              /\ Stored => Row.ExtractionStatus = "error"
        /\ "ncf_expired" \notin AllCodes

\* an invoice with a retention and its payment date extracted, stored as
\* an error for want of a payment date
C26_Witness ==
    /\ Processed
    /\ Extracted.ITBISRetenido = 50 /\ Extracted.ISR = 0
    /\ Extracted.FechaPago = Fecha_2025_01_10
    /\ "missing_payment_date" \in ErrorCodes
    /\ Stored /\ Row.ExtractionStatus = "error"

(* C27: an invoice whose NCF is empty, or whose total is <= 0, never
   reaches extraction_status 'validated' through ProcessInvoice: with the
   0.15 critical point the matching 0.10 bonus is lost too, so its
   confidence is at most 0.75 < 0.85 and the status is 'review' or
   'error'. *)
C27_NoNcfOrTotalNeverValidated ==
    (Processed /\ (Extracted.NCF = <<>> \/ Extracted.Total <= 0)) =>
        /\ Extracted.Confidence <= 75
        /\ response.extractionStatus \in {"review", "error"}
        /\ Stored => /\ Row.ExtractionStatus \in {"review", "error"}
                     /\ Row.Estado = "pendiente"

\* everything extracted and consistent but the NCF: 0.75, sent to review
C27_Witness ==
    /\ Processed
    /\ Extracted.NCF = <<>> /\ Extracted.Total > 0
    /\ Extracted.Confidence = 75
    /\ Res.valid /\ Res.warnings = <<>>
    /\ Stored /\ Row.ExtractionStatus = "review"

\* everything extracted but the total
C27_NoTotal ==
    /\ Processed
    /\ Extracted.NCF = NCF_B01 /\ Extracted.Total = 0
    /\ Extracted.Confidence = 75

(* C28: warning itbis_exento_exceeds_base and error itbis_mismatch never
   occur in the same result: the warning needs montoServicios + montoBienes
   - descuento - itbisExento < 0, which clamps baseGravada to 0 and makes
   the ITBIS check and the telecom check skip; and for inputs with
   itbisExento >= 0, descuento_exceeds_subtotal implies a computed
   baseGravada of 0 and no itbis_mismatch. *)
C28_NegativeBaseSkipsItbis ==
    Done =>
        /\ "itbis_exento_exceeds_base" \in WarningCodes =>
              /\ GravadaOf < 0
              /\ Res.computed.baseGravada = 0
              /\ "itbis_mismatch" \notin ErrorCodes
              /\ "isc_telecom_mismatch" \notin WarningCodes
              /\ "cdt_mismatch" \notin WarningCodes
        /\ (InC.itbisExento >= 0
            /\ "descuento_exceeds_subtotal" \in WarningCodes) =>
              /\ Res.computed.baseGravada = 0
              /\ "itbis_mismatch" \notin ErrorCodes

\* a telecom invoice of 10.00 with 25.00 exempt and 1.80 of ITBIS: the
\* warning, and neither the ITBIS error nor the telecom warnings
C28_Witness ==
    /\ Done
    /\ InC.montoServicios = 1000 /\ InC.itbisExento = 2500
    /\ InC.itbisFacturado = 180 /\ In.iscCategoria = "telecom"
    /\ "itbis_exento_exceeds_base" \in WarningCodes
    /\ "itbis_mismatch" \notin ErrorCodes

\* a discount above the subtotal with no ITBIS error
C28_DescuentoAboveSubtotal ==
    /\ Done
    /\ InC.itbisExento >= 0 /\ InC.itbisFacturado = 180
    /\ "descuento_exceeds_subtotal" \in WarningCodes
    /\ Res.computed.baseGravada = 0

\* with a negative exempt amount the base stays positive under a discount
\* above the subtotal, and the ITBIS error is raised
C28_NegativeExento ==
    /\ Done
    /\ InC.itbisExento < 0
    /\ "descuento_exceeds_subtotal" \in WarningCodes
    /\ "itbis_mismatch" \in ErrorCodes

----------------------------------------------------------------------------
(* Fields no check reads *)

\* the values the three fields are replaced with
OtherAmounts == {Fx(0), Fx(50), Fx(-70)}

\* the inputs that differ from input only in itbisProporcionalidad,
\* itbisCosto and montoNoFacturable
Variants(input) ==
    { [input EXCEPT !.itbisProporcionalidad = p, !.itbisCosto = k,
                    !.montoNoFacturable = n] :
        p \in OtherAmounts, k \in OtherAmounts, n \in OtherAmounts }

(* C29: itbisProporcionalidad, itbisCosto and montoNoFacturable never
   influence validation: two inputs that differ only in these fields
   produce identical results (same errors, warnings and computed
   values). *)
C29_UnusedFieldsIgnored ==
    Done =>
        \A other \in Variants(In) :
            Validate(NewTaxValidator, other, calledAt[1]) = Res

\* all three fields filled in on an invoice that has findings
C29_Witness ==
    /\ Done
    /\ InC.itbisProporcionalidad = 50 /\ InC.itbisCosto = 60
    /\ InC.montoNoFacturable = 70
    /\ InC.totalFactura = 1180
    /\ Res.errors # <<>>
    /\ Validate(NewTaxValidator, [In EXCEPT !.itbisProporcionalidad = 0,
                                            !.itbisCosto = 0,
                                            !.montoNoFacturable = 0],
                calledAt[1]) = Res

(* C30: in ProcessInvoice the stored review_notes is non-empty exactly
   when the validation result has at least one error or warning; it comes
   from the validation result alone, so an invoice in 'review' only
   because its confidence is below 0.85 is stored with empty review_notes,
   and every invoice with status 'error' has non-empty review_notes. *)
C30_ReviewNotesIffFindings ==
    (Processed /\ Stored) =>
        /\ Row.ReviewNotes # <<>>
              <=> (Res.errors # <<>> \/ Res.warnings # <<>>)
        /\ (Row.ExtractionStatus = "review" /\ Res.warnings = <<>>)
              => Row.ReviewNotes = <<>>
        /\ Row.ExtractionStatus = "error" => Row.ReviewNotes # <<>>
        /\ Row.ReviewNotes # <<>> =>
              /\ Row.ReviewNotes[1].errors = Res.errors
              /\ Row.ReviewNotes[1].warnings = Res.warnings

\* a clean invoice with a low score: in review, with nothing to read
C30_Witness ==
    /\ Processed /\ Stored
    /\ Res.valid /\ Res.warnings = <<>>
    /\ Row.ConfidenceScore < 85
    /\ Row.ExtractionStatus = "review"
    /\ Row.ReviewNotes = <<>>

\* an invalid invoice stored with its findings
C30_ErrorWithNotes ==
    /\ Processed /\ Stored
    /\ Row.ExtractionStatus = "error"
    /\ Row.ReviewNotes # <<>>

====
